---- MODULE Spec2Model ----
(***************************************************************************)
(* A model of the kaizen entity store: the filesystem backend              *)
(* (kaizen/backend/filesystem.py), the vector backend                      *)
(* (kaizen/backend/milvus.py) and the LLM-mediated conflict resolution     *)
(* (kaizen/llm/conflict_resolution/conflict_resolution.py).                *)
(***************************************************************************)
EXTENDS Integers, Sequences, FiniteSets, TLC

VARIABLES
    backend,    \* KaizenConfig.backend: the backend the client was built with
    fs,         \* filesystem backend: namespace id -> NoFile or the JSON document
    mv,         \* vector backend: namespace id -> NoCollection or the Milvus collection
    db,         \* vector backend: the ids in the namespaces table of the side database
    clock,      \* datetime.datetime.now(datetime.UTC), in seconds
    resp,       \* the call that has returned to the sequential caller, with its result
    rc,         \* one call of resolve_conflicts: its arguments and what it gave
    th,         \* thread -> the call it is in, and where it is in the call
    lock,       \* backend object -> the thread that holds its _lock, or Free
    co,         \* one run of consolidate_tips: where it is, and what it did so far
    sy,         \* the runs of PhoenixSync.sync, their spans and their results
    cl,         \* one call of cluster_entities: its arguments and the clusters it gave
    se,         \* the store's history under searches: the ids added, rewritten and deleted
    gc,         \* mcp_server: _client, _namespace_initialized, _client_init_lock and the callers of get_client
    gt          \* one call of generate_tips: the trajectory, the response of the model, the result

vars == <<backend, fs, mv, db, clock, resp, rc, th, lock, co, sy, cl, se, gc, gt>>

----------------------------------------------------------------------------
(* Bounds of the model. *)

\* ids 1..MaxId can be assigned in one namespace file before it is full
MaxId == 2
\* longest batch of entities submitted to update_entities
MaxBatch == 2
\* longest event list in one answer of the model
MaxEvents == 1

----------------------------------------------------------------------------
(* Values. *)

\* Python's None, where a string is expected
None == "None"

\* metadata: Python's None, or a dict given by its set of <<key, value>> items
NoneMeta == [none |-> TRUE, items |-> {}]
Dict(items) == [none |-> FALSE, items |-> items]
EmptyDict == Dict({})
M1 == Dict({ <<"task_description", "t1">> })
\* a metadata dict invented by the model in its answer
MX == Dict({ <<"invented", "x">> })

NsIds == {"ns"}
Types == {"guideline", "note"}

\* Strings are sequences of characters, so that lower() and `in` can be computed.
CA == <<"a">>
CAb == <<"A", "b">>
Contents == { CA, CAb }

\* str(n) for an int n: its decimal string.  Injective, and never a placeholder.
Str(n) == <<"dec", n>>
\* f"Unprocessed_Entity_{i}"
Unprocessed(i) == <<"Unprocessed_Entity_", i>>

\* The file of a namespace does not exist.
NoFile == [exists |-> FALSE]

\* Entity: the entities a caller can put in a batch.
Entity(c, m, t) == [content |-> c, metadata |-> m, type |-> t]
InputEntities ==
    { Entity(CA, NoneMeta, "guideline"),
      Entity(CAb, M1, "guideline"),
      Entity(CAb, EmptyDict, "note") }

RECURSIVE SeqsUpTo(_, _)
SeqsUpTo(S, n) ==
    IF n = 0 THEN { <<>> }
    ELSE LET shorter == SeqsUpTo(S, n - 1)
         IN  shorter \cup { Append(s, x) : s \in { q \in shorter : Len(q) = n - 1 }, x \in S }

Batches == SeqsUpTo(InputEntities, MaxBatch)

Range(s) == { s[i] : i \in 1..Len(s) }

\* s[:n]
Take(s, n) == SubSeq(s, 1, IF Len(s) < n THEN Len(s) ELSE n)

----------------------------------------------------------------------------
(* Filesystem backend: the document of a namespace and its search. *)

\* FilesystemNamespace as created by create_namespace
NewNamespace(id, now) ==
    [exists |-> TRUE, id |-> id, created_at |-> now, entities |-> <<>>,
     next_id |-> 1, num_entities |-> 0]

\* one element of FilesystemNamespace.entities
StoredEntity(id, type, content, now, metadata) ==
    [id |-> id, type |-> type, content |-> content, created_at |-> now,
     metadata |-> metadata]

\* str.lower() on the characters of the model
LowerChar(ch) == IF ch = "A" THEN "a" ELSE IF ch = "B" THEN "b" ELSE ch
Lower(s) == [i \in 1..Len(s) |-> LowerChar(s[i])]

\* q in s, for strings
IsSubstring(q, s) ==
    \E k \in 0..(Len(s) - Len(q)) : \A i \in 1..Len(q) : s[k + i] = q[i]

\* dict.get(key) on a metadata dict: None when the key is absent
DictGet(m, key) ==
    IF \E it \in m.items : it[1] = key
    THEN (CHOOSE it \in m.items : it[1] = key)[2]
    ELSE None

\* ent.get("metadata") or {}
MetaOrEmpty(m) == IF m.none THEN EmptyDict ELSE m

\* a match of the query that tells upper case from lower case
MatchesQueryCaseSensitive(ent, query) == IsSubstring(query, ent.content)

\* The filters of the model are on "type" and on metadata keys: ent.get(key),
\* and when that is None and the metadata is a non-empty dict, metadata.get(key).
EntGet(ent, key) ==
    IF key = "type" THEN ent.type
    ELSE IF ~ent.metadata.none /\ ent.metadata.items # {}
         THEN DictGet(ent.metadata, key)
         ELSE None

MatchesFilters(ent, filters) ==
    \A f \in filters : EntGet(ent, f[1]) = f[2]

MatchesQuery(ent, query) == IsSubstring(Lower(query), Lower(ent.content))

AsRecorded(ent) ==
    [id |-> ent.id, type |-> ent.type, content |-> ent.content,
     created_at |-> ent.created_at, metadata |-> MetaOrEmpty(ent.metadata)]

\* query=None, as a value that is no string of the model
NoQuery == <<"<None>">>

\* _search_entities_internal; filters is a set of <<key, value>> ({} for None)
SearchEntitiesInternal(data, query, filters, limit) ==
    LET ByFilters(e) == MatchesFilters(e, filters)
        ByQuery(e)   == MatchesQuery(e, query)
        filtered == SelectSeq(data.entities, ByFilters)
        results  == IF query = NoQuery THEN Take(filtered, limit)
                    ELSE Take(SelectSeq(filtered, ByQuery), limit)
    IN  [i \in 1..Len(results) |-> AsRecorded(results[i])]

----------------------------------------------------------------------------
(* Conflict resolution: resolve_conflicts and the answers of the model. *)

\* range(3) in resolve_conflicts
MaxAttempts == 3
\* limit=10 of the search for similar entities in update_entities
SimilarLimit == 10

\* EntityUpdate.  old_entity is never read by a backend and is left out.
EntityUpdate(id, type, content, event, metadata) ==
    [id |-> id, type |-> type, content |-> content, event |-> event,
     metadata |-> metadata]

\* What one attempt gets from the model: err = "none" and the events of an
\* answer that parses as JSON and validates as EntityUpdate objects, or the
\* exception that completion(), json.loads or model_validate raises.
GoodAnswer(events) == [err |-> "none", events |-> events]
BadAnswer(err) == [err |-> err, events |-> <<>>]

\* entities_with_temporary_ids: metadata None becomes {}, id a placeholder
TemporaryEntities(entities, now) ==
    [i \in 1..Len(entities) |->
        [id |-> Unprocessed(i - 1), type |-> entities[i].type,
         content |-> entities[i].content, created_at |-> now,
         metadata |-> IF entities[i].metadata.none THEN EmptyDict
                      ELSE entities[i].metadata]]

\* new_entities_by_id[id].metadata; the caller checks that the key exists
HasNewEntity(new_entities, id) == \E i \in 1..Len(new_entities) : new_entities[i].id = id
NewEntityMetadata(new_entities, id) ==
    LET last == CHOOSE i \in 1..Len(new_entities) :
                    /\ new_entities[i].id = id
                    /\ \A j \in 1..Len(new_entities) : new_entities[j].id = id => j <= i
    IN  new_entities[last].metadata

\* A variant that leaves an ADD event the metadata of the model's answer.
KeepAnswerMetadata(new_entities, update) == update

\* The metadata an ADD event gets in resolve_conflicts.
ReattachMetadata(new_entities, update) ==
    [update EXCEPT !.metadata = NewEntityMetadata(new_entities, update.id)]

\* The body of the try block for one answer: the events with the metadata of
\* ADD events reattached, or the exception raised (KeyError for an ADD whose id
\* is no key of new_entities_by_id).
Attempt(answer, new_entities) ==
    IF answer.err # "none"
    THEN [ok |-> FALSE, err |-> answer.err, events |-> <<>>]
    ELSE IF \E i \in 1..Len(answer.events) :
                /\ answer.events[i].event = "ADD"
                /\ ~HasNewEntity(new_entities, answer.events[i].id)
    THEN [ok |-> FALSE, err |-> "KeyError", events |-> <<>>]
    ELSE [ok |-> TRUE, err |-> "none",
          events |-> [i \in 1..Len(answer.events) |->
                        IF answer.events[i].event = "ADD"
                        THEN ReattachMetadata(new_entities, answer.events[i])
                        ELSE answer.events[i]]]

\* A variant of the retry loop that keeps the exception of the first failure.
RECURSIVE ResolveFromFirstError(_, _, _, _)
ResolveFromFirstError(new_entities, answers, attempt, caught) ==
    IF attempt > MaxAttempts
    THEN [raised |-> TRUE, err |-> caught, events |-> <<>>, calls |-> attempt - 1]
    ELSE LET r == Attempt(answers[attempt], new_entities)
         IN  IF r.ok
             THEN [raised |-> FALSE, err |-> "none", events |-> r.events,
                   calls |-> attempt]
             ELSE ResolveFromFirstError(new_entities, answers, attempt + 1,
                                        IF caught = "none" THEN r.err ELSE caught)

\* The retry loop from attempt number `attempt` on, `caught` the last exception.
RECURSIVE ResolveFrom(_, _, _, _)
ResolveFrom(new_entities, answers, attempt, caught) ==
    IF attempt > MaxAttempts
    THEN [raised |-> TRUE, err |-> caught, events |-> <<>>, calls |-> attempt - 1]
    ELSE LET r == Attempt(answers[attempt], new_entities)
         IN  IF r.ok
             THEN [raised |-> FALSE, err |-> "none", events |-> r.events,
                   calls |-> attempt]
             ELSE ResolveFrom(new_entities, answers, attempt + 1, r.err)

\* resolve_conflicts.  answers[k] is what the k-th call of the model would give.
\* old_entities only goes into the prompt.
ResolveConflicts(old_entities, new_entities, answers) ==
    ResolveFrom(new_entities, answers, 1, "none")

----------------------------------------------------------------------------
(* Filesystem backend: update_entities. *)

\* A variant of the iteration whose ADD does not advance next_id.
ApplyUpdateSameId(data, update, entity_type, now) ==
    CASE update.event = "ADD" ->
            [data |-> [data EXCEPT
                        !.entities = Append(@, StoredEntity(Str(data.next_id), entity_type,
                                                            update.content, now, update.metadata))],
             update |-> [update EXCEPT !.id = Str(data.next_id)]]
      [] update.event = "DELETE" ->
            LET Keep(e) == e.id # update.id
            IN  [data |-> [data EXCEPT !.entities = SelectSeq(@, Keep)], update |-> update]
      [] OTHER -> [data |-> data, update |-> update]

\* A variant of the iteration whose UPDATE stores the entity when no stored
\* entity has the id.
ApplyUpdateUpserts(data, update, entity_type, now) ==
    CASE update.event = "ADD" ->
            [data |-> [data EXCEPT
                        !.entities = Append(@, StoredEntity(Str(data.next_id), entity_type,
                                                            update.content, now, update.metadata)),
                        !.next_id = @ + 1],
             update |-> [update EXCEPT !.id = Str(data.next_id)]]
      [] update.event = "UPDATE" ->
            LET hits == { j \in 1..Len(data.entities) : data.entities[j].id = update.id }
            IN  IF hits = {}
                THEN [data |-> [data EXCEPT
                                  !.entities = Append(@, StoredEntity(update.id, entity_type,
                                                                      update.content, now,
                                                                      update.metadata))],
                      update |-> update]
                ELSE LET j == CHOOSE k \in hits : \A h \in hits : k <= h
                     IN  [data |-> [data EXCEPT !.entities[j] =
                                        [@ EXCEPT !.content = update.content,
                                                  !.created_at = now,
                                                  !.metadata = update.metadata]],
                          update |-> update]
      [] update.event = "DELETE" ->
            LET Keep(e) == e.id # update.id
            IN  [data |-> [data EXCEPT !.entities = SelectSeq(@, Keep)], update |-> update]
      [] OTHER -> [data |-> data, update |-> update]

\* one iteration of `for update in updates: match update.event`
ApplyUpdate(data, update, entity_type, now) ==
    CASE update.event = "ADD" ->
            [data |-> [data EXCEPT
                        !.entities = Append(@, StoredEntity(Str(data.next_id), entity_type,
                                                            update.content, now, update.metadata)),
                        !.next_id = @ + 1],
             update |-> [update EXCEPT !.id = Str(data.next_id)]]
      [] update.event = "UPDATE" ->
            LET hits == { j \in 1..Len(data.entities) : data.entities[j].id = update.id }
            IN  IF hits = {} THEN [data |-> data, update |-> update]
                ELSE LET j == CHOOSE k \in hits : \A h \in hits : k <= h
                     IN  [data |-> [data EXCEPT !.entities[j] =
                                        [@ EXCEPT !.content = update.content,
                                                  !.created_at = now,
                                                  !.metadata = update.metadata]],
                          update |-> update]
      [] update.event = "DELETE" ->
            LET Keep(e) == e.id # update.id
            IN  [data |-> [data EXCEPT !.entities = SelectSeq(@, Keep)], update |-> update]
      [] OTHER -> [data |-> data, update |-> update]

\* the loop over the events of conflict resolution, from the i-th event on
RECURSIVE ApplyUpdates(_, _, _, _, _)
ApplyUpdates(data, updates, i, entity_type, now) ==
    IF i > Len(updates) THEN [data |-> data, updates |-> updates]
    ELSE LET r == ApplyUpdate(data, updates[i], entity_type, now)
         IN  ApplyUpdates(r.data, [updates EXCEPT ![i] = r.update], i + 1, entity_type, now)

\* A variant of the else branch that returns the events newest first.
RECURSIVE InsertAllNewestFirst(_, _, _, _, _, _)
InsertAllNewestFirst(data, entities, i, updates, entity_type, now) ==
    IF i > Len(entities) THEN [data |-> data, updates |-> updates]
    ELSE LET entity_id == Str(data.next_id)
             e == entities[i]
         IN  InsertAllNewestFirst(
                       [data EXCEPT
                           !.entities = Append(@, StoredEntity(entity_id, entity_type,
                                                               e.content, now, e.metadata)),
                           !.next_id = @ + 1],
                       entities, i + 1,
                       <<EntityUpdate(entity_id, entity_type, e.content, "ADD", e.metadata)>>
                           \o updates,
                       entity_type, now)

\* the else branch: every entity of the batch is appended under a new id
RECURSIVE InsertAll(_, _, _, _, _, _)
InsertAll(data, entities, i, updates, entity_type, now) ==
    IF i > Len(entities) THEN [data |-> data, updates |-> updates]
    ELSE LET entity_id == Str(data.next_id)
             e == entities[i]
         IN  InsertAll([data EXCEPT
                           !.entities = Append(@, StoredEntity(entity_id, entity_type,
                                                               e.content, now, e.metadata)),
                           !.next_id = @ + 1],
                       entities, i + 1,
                       Append(updates, EntityUpdate(entity_id, entity_type, e.content,
                                                    "ADD", e.metadata)),
                       entity_type, now)

\* old_entities: the entities similar to each entity of the batch, concatenated
RECURSIVE SimilarEntities(_, _, _)
SimilarEntities(data, entities, i) ==
    IF i > Len(entities) THEN <<>>
    ELSE SearchEntitiesInternal(data, entities[i].content, {}, SimilarLimit)
            \o SimilarEntities(data, entities, i + 1)

\* data.num_entities = len(data.entities)
Counted(data) == [data EXCEPT !.num_entities = Len(data.entities)]

\* What a call returns or raises, the store it leaves (the files, or the
\* collections and the namespaces table) and the calls of the model it made.
\* resolved: the events resolve_conflicts returned, before the backend applied them.
Outcome(store, outcome, ret, llm_calls) ==
    [store |-> store, outcome |-> outcome, ret |-> ret, llm_calls |-> llm_calls,
     resolved |-> <<>>]

\* A variant of the locked part that, when conflict resolution raises, saves
\* the batch as plain inserts before it lets the exception out.
UpdateLockedSavesOnFailure(files, namespace_id, entities, resolve, answers, now) ==
    LET data == files[namespace_id]
        entity_type == entities[1].type
    IN  IF ~data.exists
        THEN Outcome(files, "NamespaceNotFoundException", <<>>, 0)
        ELSE LET r == InsertAll(data, entities, 1, <<>>, entity_type, now)
                 saved == [files EXCEPT ![namespace_id] = Counted(r.data)]
                 res == ResolveConflicts(<<>>, TemporaryEntities(entities, now), answers)
             IN  IF resolve /\ res.raised
                 THEN Outcome(saved, res.err, <<>>, res.calls)
                 ELSE Outcome(saved, "ok", r.updates, 0)

\* The part of update_entities under the lock: load, resolve or insert, save.
UpdateLocked(files, namespace_id, entities, resolve, answers, now) ==
    LET data == files[namespace_id]
        entity_type == entities[1].type
    IN  IF ~data.exists
        THEN Outcome(files, "NamespaceNotFoundException", <<>>, 0)
        ELSE IF resolve
        THEN LET old_entities == SimilarEntities(data, entities, 1)
                 res == ResolveConflicts(old_entities, TemporaryEntities(entities, now), answers)
             IN  IF res.raised
                 THEN Outcome(files, res.err, <<>>, res.calls)
                 ELSE LET r == ApplyUpdates(data, res.events, 1, entity_type, now)
                      IN  [Outcome([files EXCEPT ![namespace_id] = Counted(r.data)],
                                   "ok", r.updates, res.calls)
                             EXCEPT !.resolved = res.events]
        ELSE LET r == InsertAll(data, entities, 1, <<>>, entity_type, now)
             IN  Outcome([files EXCEPT ![namespace_id] = Counted(r.data)], "ok", r.updates, 0)

\* A variant of update_entities without the check that the types agree.
UpdateEntitiesUnchecked(files, namespace_id, entities, resolve, answers, now) ==
    IF Len(entities) = 0
    THEN Outcome(files, "ok", <<>>, 0)
    ELSE UpdateLocked(files, namespace_id, entities, resolve, answers, now)

\* FilesystemEntityBackend.update_entities
UpdateEntities(files, namespace_id, entities, resolve, answers, now) ==
    IF Len(entities) = 0
    THEN Outcome(files, "ok", <<>>, 0)
    ELSE IF \E i \in 1..Len(entities) : entities[i].type # entities[1].type
    THEN Outcome(files, "KaizenException", <<>>, 0)
    ELSE UpdateLocked(files, namespace_id, entities, resolve, answers, now)

\* FilesystemEntityBackend.create_namespace
CreateNamespace(files, namespace_id, now) ==
    IF files[namespace_id].exists
    THEN Outcome(files, "NamespaceAlreadyExistsException", <<>>, 0)
    ELSE Outcome([files EXCEPT ![namespace_id] = NewNamespace(namespace_id, now)],
                 "ok", <<>>, 0)

\* a delete_namespace that raises when the file is not there
DeleteNamespaceRaisesOnMissing(files, namespace_id) ==
    IF ~files[namespace_id].exists
    THEN Outcome(files, "NamespaceNotFoundException", <<>>, 0)
    ELSE Outcome([files EXCEPT ![namespace_id] = NoFile], "ok", <<>>, 0)

\* FilesystemEntityBackend.delete_namespace
DeleteNamespace(files, namespace_id) ==
    IF ~files[namespace_id].exists
    THEN Outcome(files, "ok", <<>>, 0)
    ELSE Outcome([files EXCEPT ![namespace_id] = NoFile], "ok", <<>>, 0)

\* a delete_entity_by_id that gives the ids above the last stored one back
DeleteEntityByIdFreesIds(files, namespace_id, entity_id) ==
    LET data == files[namespace_id]
        Keep(e) == e.id # entity_id
    IN  IF ~data.exists
        THEN Outcome(files, "NamespaceNotFoundException", <<>>, 0)
        ELSE LET kept == SelectSeq(data.entities, Keep)
             IN  IF Len(kept) = Len(data.entities)
                 THEN Outcome(files, "KaizenException", <<>>, 0)
                 ELSE Outcome([files EXCEPT ![namespace_id] =
                                  Counted([data EXCEPT !.entities = kept,
                                                       !.next_id = Len(kept) + 1])],
                              "ok", <<>>, 0)

\* a delete_entity_by_id that returns quietly when no entity has the id
DeleteEntityByIdQuietOnMissing(files, namespace_id, entity_id) ==
    LET data == files[namespace_id]
        Keep(e) == e.id # entity_id
    IN  IF ~data.exists
        THEN Outcome(files, "NamespaceNotFoundException", <<>>, 0)
        ELSE Outcome([files EXCEPT ![namespace_id] =
                         Counted([data EXCEPT !.entities = SelectSeq(@, Keep)])],
                     "ok", <<>>, 0)

\* FilesystemEntityBackend.delete_entity_by_id
DeleteEntityById(files, namespace_id, entity_id) ==
    LET data == files[namespace_id]
        Keep(e) == e.id # entity_id
    IN  IF ~data.exists
        THEN Outcome(files, "NamespaceNotFoundException", <<>>, 0)
        ELSE LET kept == SelectSeq(data.entities, Keep)
             IN  IF Len(kept) = Len(data.entities)
                 THEN Outcome(files, "KaizenException", <<>>, 0)
                 ELSE Outcome([files EXCEPT ![namespace_id] =
                                  Counted([data EXCEPT !.entities = kept])],
                              "ok", <<>>, 0)

----------------------------------------------------------------------------
(* Vector backend.  pymilvus is a library: insert gives the row the next     *)
(* automatic id of the collection, upsert replaces the row with the given id *)
(* or inserts it, delete removes it, and the primary key is unique.          *)

NoCollection == [exists |-> FALSE]
NewCollection == [exists |-> TRUE, rows |-> <<>>, auto |-> 1]

\* A string that json.loads accepts: of the strings of the model, the digit strings.
Digits == {"0", "1", "2", "3", "4", "5", "6", "7", "8", "9"}
IsJson(content) == content # <<>> /\ \A i \in 1..Len(content) : content[i] \in Digits

\* serialize_content: a str is stored as it is
SerializeContent(content) == content
\* deserialize_content: json.loads(content), or content when that fails
DeserializeContent(content) == IF IsJson(content) THEN <<"json", content>> ELSE content

\* int(entity_id): defined on decimal strings only
IsDecimal(id) == id[1] = "dec"
IntOf(id) == id[2]

MilvusRow(id, type, content, now, metadata) ==
    [id |-> id, type |-> type, content |-> content, created_at |-> now,
     metadata |-> metadata]

\* The automatic id of the next row: above every id given out and every id in use.
NextAutoId(coll) ==
    LET used == { coll.rows[j].id : j \in 1..Len(coll.rows) } \cup {coll.auto - 1}
    IN  1 + CHOOSE m \in used : \A u \in used : u <= m

\* milvus.insert(...)['ids'][0] and its effect
MilvusInsert(coll, type, content, now, metadata) ==
    LET id == NextAutoId(coll)
    IN  [coll |-> [coll EXCEPT !.rows = Append(@, MilvusRow(id, type, content, now, metadata)),
                               !.auto = id + 1],
         id |-> id]

\* milvus.upsert(..., partial_update=True)
MilvusUpsert(coll, id, type, content, now, metadata) ==
    LET hits == { j \in 1..Len(coll.rows) : coll.rows[j].id = id }
    IN  IF hits = {}
        THEN [coll EXCEPT !.rows = Append(@, MilvusRow(id, type, content, now, metadata))]
        ELSE LET j == CHOOSE k \in hits : TRUE
             IN  [coll EXCEPT !.rows[j] = MilvusRow(id, type, content, now, metadata)]

\* MilvusEntityBackend.delete_entity_by_id on the collections
DeleteEntityByIdMilvus(store, namespace_id, entity_id) ==
    LET coll == store.mv[namespace_id]
        Keep(row) == row.id # IntOf(entity_id)
    IN  IF ~IsDecimal(entity_id) THEN Outcome(store, "KaizenException", <<>>, 0)
        ELSE IF ~coll.exists THEN Outcome(store, "NamespaceNotFoundException", <<>>, 0)
        ELSE IF \A j \in 1..Len(coll.rows) : Keep(coll.rows[j])
        THEN Outcome(store, "KaizenException", <<>>, 0)
        ELSE Outcome([store EXCEPT !.mv[namespace_id].rows = SelectSeq(@, Keep)],
                     "ok", <<>>, 0)

\* one iteration of `for update in updates: match update.event`; err is the
\* exception the iteration raises, "none" when it completes
ApplyUpdateMilvus(store, namespace_id, update, entity_type, now) ==
    LET coll == store.mv[namespace_id]
        content_str == SerializeContent(update.content)
    IN  CASE update.event = "ADD" ->
                LET ins == MilvusInsert(coll, entity_type, content_str, now, update.metadata)
                IN  [store |-> [store EXCEPT !.mv[namespace_id] = ins.coll],
                     update |-> [update EXCEPT !.id = Str(ins.id)], err |-> "none"]
          [] update.event = "UPDATE" ->
                IF ~IsDecimal(update.id)
                THEN [store |-> store, update |-> update, err |-> "ValueError"]
                ELSE [store |-> [store EXCEPT !.mv[namespace_id] =
                                    MilvusUpsert(coll, IntOf(update.id), entity_type,
                                                 content_str, now, update.metadata)],
                      update |-> update, err |-> "none"]
          [] update.event = "DELETE" ->
                LET r == DeleteEntityByIdMilvus(store, namespace_id, update.id)
                IN  [store |-> r.store, update |-> update,
                     err |-> IF r.outcome = "ok" THEN "none" ELSE r.outcome]
          [] OTHER -> [store |-> store, update |-> update, err |-> "none"]

\* the loop over the events: it stops at the first iteration that raises, and
\* what the earlier iterations wrote stays written
RECURSIVE ApplyUpdatesMilvus(_, _, _, _, _, _)
ApplyUpdatesMilvus(store, namespace_id, updates, i, entity_type, now) ==
    IF i > Len(updates) THEN [store |-> store, updates |-> updates, err |-> "none"]
    ELSE LET r == ApplyUpdateMilvus(store, namespace_id, updates[i], entity_type, now)
         IN  IF r.err # "none" THEN [store |-> r.store, updates |-> updates, err |-> r.err]
             ELSE ApplyUpdatesMilvus(r.store, namespace_id, [updates EXCEPT ![i] = r.update],
                                     i + 1, entity_type, now)

\* the else branch: every entity is inserted, metadata None as {}
RECURSIVE InsertAllMilvus(_, _, _, _, _, _)
InsertAllMilvus(coll, entities, i, updates, entity_type, now) ==
    IF i > Len(entities) THEN [coll |-> coll, updates |-> updates]
    ELSE LET e == entities[i]
             metadata == IF e.metadata.none THEN EmptyDict ELSE e.metadata
             ins == MilvusInsert(coll, entity_type, SerializeContent(e.content), now, metadata)
         IN  InsertAllMilvus(ins.coll, entities, i + 1,
                             Append(updates, EntityUpdate(Str(ins.id), entity_type, e.content,
                                                          "ADD", metadata)),
                             entity_type, now)

\* MilvusEntityBackend.update_entities.  The similar entities it looks up only
\* go into the prompt of resolve_conflicts.
UpdateEntitiesMilvus(store, namespace_id, entities, resolve, answers, now) ==
    IF ~store.mv[namespace_id].exists
    THEN Outcome(store, "NamespaceNotFoundException", <<>>, 0)
    ELSE IF Len(entities) = 0
    THEN Outcome(store, "IndexError", <<>>, 0)
    ELSE IF \E i \in 1..Len(entities) : entities[i].type # entities[1].type
    THEN Outcome(store, "KaizenException", <<>>, 0)
    ELSE IF resolve
    THEN LET res == ResolveConflicts(<<>>, TemporaryEntities(entities, now), answers)
         IN  IF res.raised
             THEN Outcome(store, res.err, <<>>, res.calls)
             ELSE LET r == ApplyUpdatesMilvus(store, namespace_id, res.events, 1,
                                              entities[1].type, now)
                  IN  IF r.err # "none"
                      THEN [Outcome(r.store, r.err, <<>>, res.calls)
                                EXCEPT !.resolved = res.events]
                      ELSE [Outcome(r.store, "ok", r.updates, res.calls)
                                EXCEPT !.resolved = res.events]
    ELSE LET r == InsertAllMilvus(store.mv[namespace_id], entities, 1, <<>>,
                                  entities[1].type, now)
         IN  Outcome([store EXCEPT !.mv[namespace_id] = r.coll], "ok", r.updates, 0)

\* MilvusEntityBackend.create_namespace with SQLiteManager.create_namespace
CreateNamespaceMilvus(store, namespace_id) ==
    LET made == IF store.mv[namespace_id].exists THEN store
                ELSE [store EXCEPT !.mv[namespace_id] = NewCollection]
    IN  IF namespace_id \in store.db
        THEN Outcome(made, "NamespaceAlreadyExistsException", <<>>, 0)
        ELSE Outcome([made EXCEPT !.db = @ \cup {namespace_id}], "ok", <<>>, 0)

\* MilvusEntityBackend.delete_namespace with SQLiteManager.delete_namespace
DeleteNamespaceMilvus(store, namespace_id) ==
    Outcome([store EXCEPT !.mv[namespace_id] = NoCollection, !.db = @ \ {namespace_id}],
            "ok", <<>>, 0)

----------------------------------------------------------------------------
(* The inputs of the model. *)

\* The events an answer of the model is made of: ADD events for the first two
\* placeholders (the second is unknown to a batch of one entity), carrying
\* metadata of the model's invention; UPDATE and DELETE events for the decimal
\* ids "1" and "2" (stored or not), without metadata, which the model never sees.
LLMEvents ==
    { EntityUpdate(Unprocessed(i), "guideline", CAb, "ADD", MX) : i \in {0, 1} }
    \cup { EntityUpdate(Str(k), "guideline", CAb, ev, NoneMeta) :
            k \in {1, 2}, ev \in {"UPDATE", "DELETE"} }
    \cup { EntityUpdate(Str(1), "guideline", CA, "NONE", NoneMeta) }

\* answers of two events: an ADD for the first placeholder, then an UPDATE or
\* a DELETE for a decimal id
ChainedAnswers ==
    { GoodAnswer(<<EntityUpdate(Unprocessed(0), "guideline", CAb, "ADD", MX), e>>) :
        e \in { u \in LLMEvents : u.event \in {"UPDATE", "DELETE"} } }

GoodAnswers ==
    { GoodAnswer(evs) : evs \in SeqsUpTo(LLMEvents, MaxEvents) } \cup ChainedAnswers
BadAnswers == { BadAnswer("JSONDecodeError"), BadAnswer("ValidationError") }

\* What the model answers to the successive calls of one resolve_conflicts:
\* the same good answer every time, or failures and then, at the last attempt,
\* one more failure or an answer of one event.
Scripts ==
    { [i \in 1..MaxAttempts |-> a] : a \in GoodAnswers }
    \cup { [i \in 1..MaxAttempts |-> IF i < MaxAttempts THEN BadAnswer("JSONDecodeError") ELSE a] :
            a \in BadAnswers \cup { GoodAnswer(<<e>>) : e \in LLMEvents } }

\* the script of a call that does not reach the model
NoScript == [i \in 1..MaxAttempts |-> BadAnswer("JSONDecodeError")]

----------------------------------------------------------------------------
(* The store under a sequential caller: one call at a time, each a whole     *)
(* handler; the caller takes the result before it calls again.               *)

Backends == {"filesystem", "milvus"}

Idle == [op |-> "idle"]

\* the store of the backend in use
Store == [fs |-> fs, mv |-> mv, db |-> db]

\* no resolve_conflicts on its own, and no thread
RcOff == [state |-> "off"]
Threads == {"t1", "t2"}
\* the backend objects of one process: the one of the server's client and the
\* one of the client that PhoenixSync makes for itself
Objects == {"server", "sync"}
Free == "free"
ThreadIdle == [pc |-> "idle"]
\* no consolidation and no sync
CoOff == [pc |-> "off"]
SyOff == [pc |-> "off"]
ClOff == [pc |-> "off"]
SeOff == [pc |-> "off"]
GcOff == [pc |-> "off"]
GtOff == [pc |-> "off"]

InitStore ==
    /\ fs = [n \in NsIds |-> NoFile]
    /\ mv = [n \in NsIds |-> NoCollection]
    /\ db = {}
    /\ clock = 0
    /\ resp = Idle

\* KaizenClient.__init__: the backend named by the configuration
Init ==
    /\ backend \in Backends
    /\ InitStore
    /\ rc = RcOff
    /\ th = [t \in Threads |-> ThreadIdle]
    /\ lock = [o \in Objects |-> Free]
    /\ gt = GtOff
    /\ gc = GcOff
    /\ se = SeOff
    /\ cl = ClOff
    /\ co = CoOff
    /\ sy = SyOff

\* the ids of the model stop at MaxId: the namespace is not full
WithinIds(store) ==
    \A n \in NsIds :
        /\ store.fs[n].exists => store.fs[n].next_id <= MaxId + 1
        /\ store.mv[n].exists => store.mv[n].auto <= MaxId + 1

\* KaizenClient forwards each call to its backend
ClientCreateNamespace(n) ==
    IF backend = "filesystem"
    THEN LET r == CreateNamespace(fs, n, clock)
         IN  [r EXCEPT !.store = [Store EXCEPT !.fs = r.store]]
    ELSE CreateNamespaceMilvus(Store, n)

ClientDeleteNamespace(n) ==
    IF backend = "filesystem"
    THEN LET r == DeleteNamespace(fs, n)
         IN  [r EXCEPT !.store = [Store EXCEPT !.fs = r.store]]
    ELSE DeleteNamespaceMilvus(Store, n)

ClientUpdateEntities(n, entities, resolve, answers) ==
    IF backend = "filesystem"
    THEN LET r == UpdateEntities(fs, n, entities, resolve, answers, clock)
         IN  [r EXCEPT !.store = [Store EXCEPT !.fs = r.store]]
    ELSE UpdateEntitiesMilvus(Store, n, entities, resolve, answers, clock)

ClientDeleteEntityById(n, entity_id) ==
    IF backend = "filesystem"
    THEN LET r == DeleteEntityById(fs, n, entity_id)
         IN  [r EXCEPT !.store = [Store EXCEPT !.fs = r.store]]
    ELSE DeleteEntityByIdMilvus(Store, n, entity_id)

\* the call returns: its effect on the store, and what the caller gets
Returns(op, namespace_id, args, r) ==
    /\ fs' = r.store.fs
    /\ mv' = r.store.mv
    /\ db' = r.store.db
    /\ resp' = [op |-> op, ns |-> namespace_id, args |-> args, pre |-> Store,
                outcome |-> r.outcome, ret |-> r.ret, llm_calls |-> r.llm_calls,
                resolved |-> r.resolved]
    /\ UNCHANGED <<backend, clock, rc, th, lock, co, sy, cl, se, gc, gt>>

DoCreateNamespace ==
    /\ resp = Idle
    /\ \E n \in NsIds : Returns("create_namespace", n, <<>>, ClientCreateNamespace(n))

DoDeleteNamespace ==
    /\ resp = Idle
    /\ \E n \in NsIds : Returns("delete_namespace", n, <<>>, ClientDeleteNamespace(n))

DoUpdateEntities ==
    /\ resp = Idle
    /\ \E n \in NsIds, entities \in Batches, resolve \in BOOLEAN :
        \E answers \in (IF resolve THEN Scripts ELSE {NoScript}) :
            LET r == ClientUpdateEntities(n, entities, resolve, answers)
            IN  /\ WithinIds(r.store)
                /\ Returns("update_entities", n,
                           [entities |-> entities, resolve |-> resolve], r)

\* the ids a caller asks to delete: decimal strings, stored or not, and a
\* string that is not a number
DeleteIds == { Str(k) : k \in 1..(MaxId + 1) } \cup { Unprocessed(0) }

DoDeleteEntityById ==
    /\ resp = Idle
    /\ \E n \in NsIds, entity_id \in DeleteIds :
        Returns("delete_entity_by_id", n, entity_id,
                ClientDeleteEntityById(n, entity_id))

\* the caller has the result and is ready for its next call
Return ==
    /\ resp # Idle
    /\ resp' = Idle
    /\ UNCHANGED <<backend, fs, mv, db, clock, rc, th, lock, co, sy, cl, se, gc, gt>>

Next ==
    \/ DoCreateNamespace
    \/ DoDeleteNamespace
    \/ DoUpdateEntities
    \/ DoDeleteEntityById
    \/ Return

Spec == Init /\ [][Next]_vars

----------------------------------------------------------------------------
(* What a namespace holds, as the backend in use reads it back. *)

\* parse_milvus_entity
ParseMilvusEntity(row) ==
    [id |-> Str(row.id), type |-> row.type, content |-> DeserializeContent(row.content),
     created_at |-> row.created_at, metadata |-> row.metadata]

\* the file of the namespace, or its collection, exists
NamespaceExists(store, n) ==
    IF backend = "filesystem" THEN store.fs[n].exists ELSE store.mv[n].exists

\* the entities of a namespace: the list of its file, or the rows of its collection
EntitiesOf(store, n) ==
    IF backend = "filesystem"
    THEN IF store.fs[n].exists THEN store.fs[n].entities ELSE <<>>
    ELSE IF store.mv[n].exists
         THEN [j \in 1..Len(store.mv[n].rows) |-> ParseMilvusEntity(store.mv[n].rows[j])]
         ELSE <<>>

IdsOf(store, n) == { EntitiesOf(store, n)[j].id : j \in 1..Len(EntitiesOf(store, n)) }

\* KaizenException and its subclasses
IsKaizenException(outcome) ==
    outcome \in {"KaizenException", "NamespaceNotFoundException",
                 "NamespaceAlreadyExistsException"}

SameType(entities) == \A i \in 1..Len(entities) : entities[i].type = entities[1].type

\* the call that has just returned is an update_entities
Updated == resp.op = "update_entities"

----------------------------------------------------------------------------
(* Properties of update_entities under a sequential caller. *)

\* C1: for an existing namespace and a non-empty batch of one type,
\* update_entities without conflict resolution returns one ADD event per
\* entity of the batch, in the order of the batch, with pairwise distinct ids
\* that were not in use; the i-th event has the content of the i-th entity and
\* the id under which that entity is now stored.
C1_InsertsInOrder ==
    (/\ Updated
     /\ ~resp.args.resolve
     /\ Len(resp.args.entities) > 0
     /\ SameType(resp.args.entities)
     /\ NamespaceExists(resp.pre, resp.ns))
    => LET batch  == resp.args.entities
           before == EntitiesOf(resp.pre, resp.ns)
           after  == EntitiesOf(Store, resp.ns)
       IN  /\ resp.outcome = "ok"
           /\ Len(resp.ret) = Len(batch)
           /\ Len(after) = Len(before) + Len(batch)
           /\ \A i \in 1..Len(batch) :
                /\ resp.ret[i].event = "ADD"
                /\ resp.ret[i].content = batch[i].content
                /\ resp.ret[i].id \notin IdsOf(resp.pre, resp.ns)
                /\ \A j \in 1..Len(batch) : resp.ret[j].id = resp.ret[i].id => j = i
                /\ \E k \in 1..Len(after) :
                        /\ after[k].id = resp.ret[i].id
                        /\ after[k].content = batch[i].content
                        /\ after[k].type = batch[i].type

\* a batch of two entities of different content has been inserted
C1_Witness ==
    /\ Updated
    /\ ~resp.args.resolve
    /\ resp.outcome = "ok"
    /\ Len(resp.args.entities) = 2
    /\ resp.args.entities[1].content # resp.args.entities[2].content
    /\ Len(resp.ret) = 2

\* C2: whatever calls have been made, no two entities stored in one namespace
\* have the same id.
C2_UniqueIds ==
    \A n \in NsIds :
        LET es == EntitiesOf(Store, n)
        IN  \A i, j \in 1..Len(es) : es[i].id = es[j].id => i = j

\* conflict resolution has added an entity to a namespace that held one
C2_Witness ==
    /\ Updated
    /\ resp.args.resolve
    /\ resp.outcome = "ok"
    /\ Len(EntitiesOf(resp.pre, resp.ns)) >= 1
    /\ Len(EntitiesOf(Store, resp.ns)) = Len(EntitiesOf(resp.pre, resp.ns)) + 1

\* C3: update_entities on a batch whose entities are not all of one type
\* raises KaizenException and leaves the store as it was, with conflict
\* resolution on or off.
C3_MixedTypesRejected ==
    (Updated /\ ~SameType(resp.args.entities))
    => /\ IsKaizenException(resp.outcome)
       /\ resp.llm_calls = 0
       /\ Store = resp.pre

\* a mixed batch was submitted, with conflict resolution, to a namespace that
\* exists
C3_Witness ==
    /\ Updated
    /\ ~SameType(resp.args.entities)
    /\ resp.args.resolve
    /\ NamespaceExists(resp.pre, resp.ns)
    /\ resp.outcome = "KaizenException"

\* C4: update_entities with an empty batch returns the empty list, calls the
\* model not once and leaves the store as it was, on either backend and with
\* conflict resolution on or off.  Stated for a namespace that exists.
C4_EmptyBatchReturnsEmpty ==
    (Updated /\ Len(resp.args.entities) = 0 /\ NamespaceExists(resp.pre, resp.ns))
    => /\ resp.outcome = "ok"
       /\ resp.ret = <<>>
       /\ resp.llm_calls = 0
       /\ Store = resp.pre

\* the call that has just returned is a filesystem update_entities
UpdatedFile == Updated /\ backend = "filesystem"

\* an event after the i-th of the returned events is of this kind, on the same id
LaterEvent(i, kind) ==
    \E j \in (i + 1)..Len(resp.ret) :
        resp.ret[j].event = kind /\ resp.ret[j].id = resp.ret[i].id

\* C7: a filesystem update_entities is all or nothing.  When it raises, the
\* files are what they were before the call: entities, next_id and
\* num_entities.  When it returns, every returned event is in effect in the
\* saved file, unless a later event of the same call undid it: an added id is
\* stored, a deleted id is gone, an updated entity has the event's content,
\* and num_entities counts the entities.
C7_AllOrNothing ==
    UpdatedFile =>
        IF resp.outcome # "ok"
        THEN fs = resp.pre.fs
        ELSE LET after == EntitiesOf(Store, resp.ns)
             IN  /\ \A i \in 1..Len(resp.ret) :
                      CASE resp.ret[i].event = "ADD" ->
                              resp.ret[i].id \in IdsOf(Store, resp.ns) \/ LaterEvent(i, "DELETE")
                        [] resp.ret[i].event = "DELETE" ->
                              resp.ret[i].id \notin IdsOf(Store, resp.ns) \/ LaterEvent(i, "ADD")
                        [] resp.ret[i].event = "UPDATE" ->
                              \/ LaterEvent(i, "UPDATE")
                              \/ LaterEvent(i, "ADD")
                              \/ \A k \in 1..Len(after) :
                                    after[k].id = resp.ret[i].id
                                        => after[k].content = resp.ret[i].content
                        [] OTHER -> TRUE
                 /\ NamespaceExists(Store, resp.ns)
                    => fs[resp.ns].num_entities = Len(fs[resp.ns].entities)

\* conflict resolution gave up after its last attempt, on a namespace that
\* holds an entity
C7_Witness ==
    /\ UpdatedFile
    /\ resp.args.resolve
    /\ resp.outcome \notin {"ok", "NamespaceNotFoundException", "KaizenException"}
    /\ resp.llm_calls = MaxAttempts
    /\ Len(EntitiesOf(resp.pre, resp.ns)) >= 1

\* C8: when conflict resolution gives an UPDATE event for a stored entity (and
\* no other event of the answer names that entity), the entity's content
\* becomes the event's content and its metadata is after the call what it was
\* before, None and {} taken as the same.
C8_UpdateKeepsMetadata ==
    (UpdatedFile /\ resp.args.resolve /\ resp.outcome = "ok")
    => LET before == EntitiesOf(resp.pre, resp.ns)
           after  == EntitiesOf(Store, resp.ns)
       IN  \A i \in 1..Len(resp.ret) :
             (/\ resp.ret[i].event = "UPDATE"
              /\ \A j \in 1..Len(resp.ret) : resp.ret[j].id = resp.ret[i].id => j = i)
             => \A k \in 1..Len(before) :
                    before[k].id = resp.ret[i].id
                    => \E m \in 1..Len(after) :
                          /\ after[m].id = resp.ret[i].id
                          /\ after[m].content = resp.ret[i].content
                          /\ MetaOrEmpty(after[m].metadata) = MetaOrEmpty(before[k].metadata)

----------------------------------------------------------------------------
(* resolve_conflicts on its own: the batch and what the model would answer   *)
(* to each call are drawn at the start, and one step runs the function.      *)

\* what the model can answer to one call
ResolveAnswers ==
    BadAnswers
    \cup { GoodAnswer(<<>>),
           GoodAnswer(<<EntityUpdate(Unprocessed(0), "guideline", CAb, "ADD", MX)>>),
           GoodAnswer(<<EntityUpdate(Unprocessed(1), "guideline", CA, "ADD", NoneMeta)>>),
           GoodAnswer(<<EntityUpdate(Str(1), "guideline", CAb, "UPDATE", NoneMeta)>>) }

ResolveScripts == [1..MaxAttempts -> ResolveAnswers]

ResolveBatches ==
    { <<>>,
      <<Entity(CA, NoneMeta, "guideline")>>,
      <<Entity(CA, NoneMeta, "guideline"), Entity(CAb, M1, "guideline")>> }

InitResolve ==
    /\ backend = "filesystem"
    /\ InitStore
    /\ th = [t \in Threads |-> ThreadIdle]
    /\ lock = [o \in Objects |-> Free]
    /\ gt = GtOff
    /\ gc = GcOff
    /\ se = SeOff
    /\ cl = ClOff
    /\ co = CoOff
    /\ sy = SyOff
    /\ \E entities \in ResolveBatches, answers \in ResolveScripts :
          rc = [state |-> "called", new_entities |-> TemporaryEntities(entities, clock),
                answers |-> answers, result |-> <<>>]

\* resolve_conflicts(old_entities, new_entities) runs and returns or raises
DoResolveConflicts ==
    /\ rc.state = "called"
    /\ rc' = [rc EXCEPT !.state = "done",
                        !.result = ResolveConflicts(<<>>, rc.new_entities, rc.answers)]
    /\ UNCHANGED <<backend, fs, mv, db, clock, resp, th, lock, co, sy, cl, se, gc, gt>>

NextResolve == DoResolveConflicts

SpecResolve == InitResolve /\ [][NextResolve]_vars

\* the k-th answer parses as JSON, validates as EntityUpdate objects, and each
\* of its ADD events names an entity of the batch
Accepted(k) ==
    /\ rc.answers[k].err = "none"
    /\ \A i \in 1..Len(rc.answers[k].events) :
          rc.answers[k].events[i].event = "ADD"
          => \E j \in 1..Len(rc.new_entities) :
                rc.new_entities[j].id = rc.answers[k].events[i].id

\* the exception of the k-th attempt, when its answer is not accepted
ErrorOf(k) == IF rc.answers[k].err # "none" THEN rc.answers[k].err ELSE "KeyError"

C34_EmptyNewIsNoOp ==
    (rc.state = "done" /\ rc.new_entities = <<>>) =>
        /\ ~rc.result.raised
        /\ rc.result.events = <<>>

----------------------------------------------------------------------------
(* The filesystem backend under threads.  Each thread makes one call on one  *)
(* of the backend objects of the process, all on the same data directory.    *)
(* A call takes the _lock of its object, reads the file, computes, writes    *)
(* the file and gives the _lock back; threads interleave between these.      *)

\* the file of the namespace when the threads start: one stored entity
ConcInitFiles ==
    [n \in NsIds |->
        [NewNamespace(n, 0) EXCEPT
            !.entities = <<StoredEntity(Str(1), "guideline", CA, 0, EmptyDict)>>,
            !.next_id = 2, !.num_entities = 1]]

Call(op, entities, resolve, answers, entity_id) ==
    [op |-> op, ns |-> "ns", entities |-> entities, resolve |-> resolve,
     answers |-> answers, entity_id |-> entity_id]

\* the model gives the same answer to every call
Always(answer) == [i \in 1..MaxAttempts |-> answer]

ConcCalls ==
    { Call("update_entities", <<>>, FALSE, NoScript, None),
      Call("update_entities", <<Entity(CA, NoneMeta, "guideline")>>, FALSE, NoScript, None),
      Call("update_entities", <<Entity(CAb, M1, "guideline")>>, FALSE, NoScript, None),
      Call("update_entities", <<Entity(CAb, M1, "guideline")>>, TRUE,
           Always(GoodAnswer(<<EntityUpdate(Unprocessed(0), "guideline", CAb, "ADD", MX)>>)),
           None),
      Call("update_entities", <<Entity(CAb, M1, "guideline")>>, TRUE,
           Always(GoodAnswer(<<EntityUpdate(Str(1), "guideline", CAb, "UPDATE", NoneMeta)>>)),
           None),
      Call("update_entities", <<Entity(CA, NoneMeta, "guideline")>>, TRUE, NoScript, None),
      Call("update_entities", <<Entity(CA, NoneMeta, "guideline")>>, TRUE,
           Always(GoodAnswer(<<EntityUpdate(Str(1), "guideline", CAb, "DELETE", NoneMeta)>>)),
           None),
      Call("create_namespace", <<>>, FALSE, NoScript, None),
      Call("delete_namespace", <<>>, FALSE, NoScript, None),
      Call("search_entities", <<>>, FALSE, NoScript, None),
      Call("delete_entity_by_id", <<>>, FALSE, NoScript, Str(1)) }

InitConc ==
    /\ backend = "filesystem"
    /\ fs = ConcInitFiles
    /\ mv = [n \in NsIds |-> NoCollection]
    /\ db = {}
    /\ clock = 0
    /\ resp = Idle
    /\ rc = RcOff
    /\ th = [t \in Threads |-> ThreadIdle]
    /\ lock = [o \in Objects |-> Free]
    /\ gt = GtOff
    /\ gc = GcOff
    /\ se = SeOff
    /\ cl = ClOff
    /\ co = CoOff
    /\ sy = SyOff

\* limit: int = 10 of search_entities
DefaultLimit == 10

\* a variant of the lock that lets every thread in
AlwaysAcquire(locks, obj) == TRUE

\* Lock.acquire() of `with self._lock:` goes through when the lock is free
CanAcquire(locks, obj) == locks[obj] = Free

\* the body of `with self._lock:` of a call, on the files as the thread reads them
LockedBody(call, files, now) ==
    CASE call.op = "update_entities" ->
            UpdateLocked(files, call.ns, call.entities, call.resolve, call.answers, now)
      [] call.op = "create_namespace" -> CreateNamespace(files, call.ns, now)
      [] call.op = "delete_namespace" -> DeleteNamespace(files, call.ns)
      [] call.op = "search_entities" ->
            IF ~files[call.ns].exists
            THEN Outcome(files, "NamespaceNotFoundException", <<>>, 0)
            ELSE Outcome(files, "ok",
                         SearchEntitiesInternal(files[call.ns], NoQuery, {}, DefaultLimit), 0)
      [] OTHER -> DeleteEntityById(files, call.ns, call.entity_id)

\* the body ends in a write of the file (write_text or unlink);
\* search_entities only reads
Writes(call, files, r) ==
    /\ r.outcome = "ok"
    /\ call.op # "search_entities"
    /\ call.op = "delete_namespace" => files[call.ns].exists

\* the call as a whole, on files no other thread touches
WholeCall(call, files, now) ==
    IF call.op = "update_entities"
    THEN UpdateEntities(files, call.ns, call.entities, call.resolve, call.answers, now)
    ELSE LockedBody(call, files, now)

Running(t, call, obj, pc, now) ==
    [pc |-> pc, call |-> call, obj |-> obj, now |-> now, data |-> NoFile,
     outcome |-> "none", ret |-> <<>>]

\* The thread enters a call on a backend object.  update_entities returns on
\* an empty batch, raises on mixed types and reads the time, all before the lock.
Start(t) ==
    /\ th[t].pc = "idle"
    /\ \E call \in ConcCalls, obj \in Objects :
          LET early == WholeCall(call, fs, clock)
          IN  th' = [th EXCEPT ![t] =
                        IF call.op = "update_entities"
                           /\ (Len(call.entities) = 0 \/ ~SameType(call.entities))
                        THEN [Running(t, call, obj, "done", clock) EXCEPT
                                    !.outcome = early.outcome, !.ret = early.ret]
                        ELSE Running(t, call, obj, "acquire", clock)]
    /\ UNCHANGED <<backend, fs, mv, db, clock, resp, rc, lock, co, sy, cl, se, gc, gt>>

\* with self._lock: the thread gets the lock of its backend object
Acquire(t) ==
    /\ th[t].pc = "acquire"
    /\ CanAcquire(lock, th[t].obj)
    /\ lock' = [lock EXCEPT ![th[t].obj] = t]
    /\ th' = [th EXCEPT ![t].pc = "load"]
    /\ UNCHANGED <<backend, fs, mv, db, clock, resp, rc, co, sy, cl, se, gc, gt>>

\* The thread reads the file and runs the body up to the write.  An
\* exception, or a return without a write, leaves the with block at once.
Load(t) ==
    /\ th[t].pc = "load"
    /\ LET call == th[t].call
           r == LockedBody(call, fs, IF call.op = "update_entities" THEN th[t].now ELSE clock)
       IN  th' = [th EXCEPT ![t] =
                    [@ EXCEPT !.pc = IF Writes(call, fs, r) THEN "save" ELSE "release",
                              !.data = r.store[call.ns],
                              !.outcome = r.outcome,
                              !.ret = r.ret]]
    /\ UNCHANGED <<backend, fs, mv, db, clock, resp, rc, lock, co, sy, cl, se, gc, gt>>

\* _save_namespace_data, or unlink: the file becomes what the thread computed
Save(t) ==
    /\ th[t].pc = "save"
    /\ fs' = [fs EXCEPT ![th[t].call.ns] = th[t].data]
    /\ th' = [th EXCEPT ![t].pc = "release"]
    /\ UNCHANGED <<backend, mv, db, clock, resp, rc, lock, co, sy, cl, se, gc, gt>>

\* a with block that gives the lock back only when its body returns
ReleasedOnReturn(locks, obj, outcome) ==
    IF outcome = "ok" THEN [locks EXCEPT ![obj] = Free] ELSE locks

\* Lock.__exit__: the lock is given back however the body of the with block
\* was left, by its end, by return or by an exception
Released(locks, obj, outcome) == [locks EXCEPT ![obj] = Free]

\* the end of the with block: the lock is released, the call returns or raises
Release(t) ==
    /\ th[t].pc = "release"
    /\ lock' = Released(lock, th[t].obj, th[t].outcome)
    /\ th' = [th EXCEPT ![t].pc = "done"]
    /\ UNCHANGED <<backend, fs, mv, db, clock, resp, rc, co, sy, cl, se, gc, gt>>

NextConc ==
    \E t \in Threads :
        \/ Start(t)
        \/ Acquire(t)
        \/ Load(t)
        \/ Save(t)
        \/ Release(t)

SpecConc == InitConc /\ [][NextConc]_vars

\* every thread has made its call, an update_entities, on the same backend object
UpdatesOnOneObject ==
    /\ \A t \in Threads : th[t].pc = "done" /\ th[t].call.op = "update_entities"
    /\ \A a, b \in Threads : th[a].obj = th[b].obj

InSection(t) == th[t].pc \in {"load", "save"}

\* the thread is between the read and the write of an update_entities with
\* conflict resolution: it has read the candidates, the model has answered,
\* and the events are applied to what it read but not yet saved
Resolving(t) ==
    /\ th[t].pc = "save"
    /\ th[t].call.op = "update_entities"
    /\ th[t].call.resolve

\* C6: the load-modify-save sections of two mutating calls on the data
\* directory never overlap, whichever backend objects of the process the calls
\* are made on.
C6_OneLockPerProcess ==
    \A a, b \in Threads : (InSection(a) /\ InSection(b)) => a = b

----------------------------------------------------------------------------
(* Consolidation: KaizenClient.cluster_tips and consolidate_tips, with       *)
(* cluster_entities and combine_cluster of kaizen/llm/tips/clustering.py.    *)

\* most tips in one answer of the model to combine_cluster
MaxMerged == 3

\* limit of cluster_tips, and the most entities cluster_entities looks at
ClusterLimit == 10000
MAX_CLUSTER_ENTITIES == 5000

\* the task descriptions of the stored guidelines
TaskDescriptions == {"t1", "t2"}

\* a stored guideline with the task description td ("" for none in its metadata)
Guideline(td) ==
    Entity(CA, IF td = "" THEN NoneMeta ELSE Dict({ <<"task_description", td>> }),
           "guideline")

\* FilesystemEntityBackend.search_entities
SearchEntities(files, namespace_id, query, filters, limit) ==
    IF ~files[namespace_id].exists
    THEN Outcome(files, "NamespaceNotFoundException", <<>>, 0)
    ELSE Outcome(files, "ok",
                 SearchEntitiesInternal(files[namespace_id], query, filters, limit), 0)

\* (entity.metadata or {}).get("task_description"), "" when there is none
TaskDescriptionOf(entity) ==
    LET td == DictGet(MetaOrEmpty(entity.metadata), "task_description")
    IN  IF td = None THEN "" ELSE td

\* the sentence encoder is a library: two equal descriptions have cosine
\* similarity 1, and `similar` holds the pairs of different descriptions whose
\* similarity reaches the threshold
Linked(filtered, similar, i, j) ==
    /\ i # j
    /\ \/ TaskDescriptionOf(filtered[i]) = TaskDescriptionOf(filtered[j])
       \/ {TaskDescriptionOf(filtered[i]), TaskDescriptionOf(filtered[j])} \in similar

\* the indices that a chain of pairs joins to those of S
RECURSIVE Component(_, _, _)
Component(filtered, similar, S) ==
    LET T == S \cup { j \in 1..Len(filtered) :
                        \E i \in S : Linked(filtered, similar, i, j) }
    IN  IF T = S THEN S ELSE Component(filtered, similar, T)

\* the elements of a set of numbers in increasing order
RECURSIVE Ascending(_)
Ascending(S) ==
    IF S = {} THEN <<>>
    ELSE LET least == CHOOSE x \in S : \A y \in S : x <= y
         IN  <<least>> \o Ascending(S \ {least})

\* rows, cols = np.where(np.triu(similarity_matrix >= threshold, k=1)): the
\* index pairs i < j whose similarity reaches the threshold, row by row
Pairs(filtered, similar) ==
    LET n == Len(filtered)
        RECURSIVE From(_, _)
        From(i, j) ==
            IF i > n THEN <<>>
            ELSE IF j > n THEN From(i + 1, i + 2)
            ELSE (IF Linked(filtered, similar, i, j) THEN << <<i, j>> >> ELSE <<>>)
                 \o From(i, j + 1)
    IN  From(1, 2)

\* find(x) of _union_find: every step makes x point to its grandparent; gives
\* the parents afterwards and the root
RECURSIVE Find(_, _)
Find(parent, x) ==
    IF parent[x] = x THEN [parent |-> parent, root |-> x]
    ELSE LET halved == [parent EXCEPT ![x] = parent[parent[x]]]
         IN  Find(halved, halved[x])

\* a union that hangs the element i, not its root, under the root of j
UnionOfElement(parent, pair) ==
    LET fi == Find(parent, pair[1])
        fj == Find(fi.parent, pair[2])
    IN  IF fi.root # fj.root THEN [fj.parent EXCEPT ![pair[1]] = fj.root]
        ELSE fj.parent

\* ri, rj = find(i), find(j); if ri != rj: parent[ri] = rj
Union(parent, pair) ==
    LET fi == Find(parent, pair[1])
        fj == Find(fi.parent, pair[2])
    IN  IF fi.root # fj.root THEN [fj.parent EXCEPT ![fi.root] = fj.root]
        ELSE fj.parent

\* _union_find(n, pairs) on the pairs of the similarity matrix: the unions in
\* the order of the pairs, then groups.setdefault(root, []).append(i) for i in
\* range(n); a dict keeps its keys in the order they were first set
UnionFind(filtered, similar) ==
    LET n == Len(filtered)
        pairs == Pairs(filtered, similar)
        RECURSIVE UnionAll(_, _)
        UnionAll(parent, k) ==
            IF k > Len(pairs) THEN parent
            ELSE UnionAll(Union(parent, pairs[k]), k + 1)
        RECURSIVE Groups(_, _, _)
        Groups(parent, i, groups) ==
            IF i > n THEN [k \in 1..Len(groups) |-> groups[k].members]
            ELSE LET f == Find(parent, i)
                     Has(k) == groups[k].root = f.root
                 IN  IF \E k \in 1..Len(groups) : Has(k)
                     THEN Groups(f.parent, i + 1,
                                 [k \in 1..Len(groups) |->
                                    IF Has(k)
                                    THEN [groups[k] EXCEPT
                                            !.members = Append(@, i)]
                                    ELSE groups[k]])
                     ELSE Groups(f.parent, i + 1,
                                 Append(groups, [root |-> f.root, members |-> <<i>>]))
    IN  Groups(UnionAll([i \in 1..n |-> i], 1), 1, <<>>)

\* cluster_entities that keeps the groups of one entity
ClusterEntitiesKeepsSingletons(entities, similar, cap) ==
    LET HasDescription(e) == TaskDescriptionOf(e) # ""
        kept == SelectSeq(entities, HasDescription)
        filtered == Take(kept, cap)
        groups == UnionFind(filtered, similar)
    IN  IF Len(kept) < 2 THEN <<>>
        ELSE [k \in 1..Len(groups) |->
                [m \in 1..Len(groups[k]) |-> filtered[groups[k][m]]]]

\* cluster_entities, with MAX_CLUSTER_ENTITIES as the parameter cap
ClusterEntitiesUpTo(entities, similar, cap) ==
    LET HasDescription(e) == TaskDescriptionOf(e) # ""
        kept == SelectSeq(entities, HasDescription)
        filtered == Take(kept, cap)
        groups == UnionFind(filtered, similar)
        Plural(g) == Len(g) >= 2
        plural == SelectSeq(groups, Plural)
    IN  IF Len(kept) < 2 THEN <<>>
        ELSE [k \in 1..Len(plural) |->
                [m \in 1..Len(plural[k]) |-> filtered[plural[k][m]]]]

\* cluster_entities
ClusterEntities(entities, similar) ==
    ClusterEntitiesUpTo(entities, similar, MAX_CLUSTER_ENTITIES)

\* a cluster_tips that fetches the entities of every type
ClusterTipsOfAnyType(files, namespace_id, similar) ==
    LET found == SearchEntities(files, namespace_id, NoQuery, {}, ClusterLimit)
    IN  IF found.outcome # "ok" THEN found
        ELSE Outcome(files, "ok", ClusterEntities(found.ret, similar), 0)

\* KaizenClient.cluster_tips: the guidelines of the namespace, clustered
ClusterTips(files, namespace_id, similar) ==
    LET found == SearchEntities(files, namespace_id, NoQuery,
                                { <<"type", "guideline">> }, ClusterLimit)
    IN  IF found.outcome # "ok" THEN found
        ELSE Outcome(files, "ok", ClusterEntities(found.ret, similar), 0)

\* Tip: the i-th tip of an answer of the model
Tip(i) ==
    [content |-> [j \in 1..i |-> "m"], rationale |-> "r", category |-> "strategy",
     trigger |-> "g"]

\* An answer of the model to the combine prompt: a list of tips that validates
\* as TipGenerationResponse, or anything that makes the attempt raise (no
\* content, no JSON, a JSON of another shape, a failed completion).
Tips(n) == [ok |-> TRUE, tips |-> [i \in 1..n |-> Tip(i)]]
NoTips == [ok |-> FALSE, tips |-> <<>>]
CombineAnswers == { NoTips } \cup { Tips(n) : n \in 0..MaxMerged }
\* range(3) in combine_cluster
CombineAttempts == 3
\* the answers to the three attempts of one call
CombineScripts == [1..CombineAttempts -> CombineAnswers]

\* combine_cluster: for attempt in range(3), the first answer that validates
RECURSIVE CombineFrom(_, _)
CombineFrom(answers, attempt) ==
    IF attempt > CombineAttempts
    THEN [raised |-> TRUE, tips |-> <<>>, calls |-> CombineAttempts]
    ELSE IF answers[attempt].ok
    THEN [raised |-> FALSE, tips |-> answers[attempt].tips, calls |-> attempt]
    ELSE CombineFrom(answers, attempt + 1)

CombineCluster(cluster, answers) == CombineFrom(answers, 1)

\* new entities that carry no task description
NewEntitiesUndescribed(cluster, consolidated_tips) ==
    [i \in 1..Len(consolidated_tips) |->
        Entity(consolidated_tips[i].content,
               Dict({ <<"rationale", consolidated_tips[i].rationale>>,
                      <<"category", consolidated_tips[i].category>>,
                      <<"trigger", consolidated_tips[i].trigger>> }),
               "guideline")]

\* the new_entities that consolidate_tips makes of the consolidated tips
NewEntities(cluster, consolidated_tips) ==
    LET task_description == TaskDescriptionOf(cluster[1])
    IN  [i \in 1..Len(consolidated_tips) |->
            Entity(consolidated_tips[i].content,
                   Dict({ <<"task_description", task_description>>,
                          <<"rationale", consolidated_tips[i].rationale>>,
                          <<"category", consolidated_tips[i].category>>,
                          <<"trigger", consolidated_tips[i].trigger>> }),
                   "guideline")]

\* A variant of phase 1 without the check for an empty list of new entities.
PhaseOneNoEmptyCheck(files, namespace_id, cluster, answers, now) ==
    LET combined == CombineCluster(cluster, answers)
        new_entities == NewEntities(cluster, combined.tips)
        r == UpdateEntities(files, namespace_id, new_entities, FALSE, NoScript, now)
    IN  IF combined.raised
        THEN [files |-> files, status |-> "combine_failed", tips |-> <<>>, ret |-> <<>>]
        ELSE IF r.outcome # "ok"
        THEN [files |-> files, status |-> "insert_failed", tips |-> combined.tips,
              ret |-> <<>>]
        ELSE [files |-> r.store, status |-> "inserted", tips |-> combined.tips,
              ret |-> r.ret]

\* Phase 1 of one cluster, the try block of consolidate_tips: combine_cluster,
\* the new entities, and update_entities without conflict resolution.  status
\* tells how the block was left: by an exception of combine_cluster or of
\* update_entities, by `continue` on no tips, or at its end.
PhaseOne(files, namespace_id, cluster, answers, now) ==
    LET combined == CombineCluster(cluster, answers)
        new_entities == NewEntities(cluster, combined.tips)
        r == UpdateEntities(files, namespace_id, new_entities, FALSE, NoScript, now)
    IN  IF combined.raised
        THEN [files |-> files, status |-> "combine_failed", tips |-> <<>>, ret |-> <<>>]
        ELSE IF Len(new_entities) = 0
        THEN [files |-> files, status |-> "no_tips", tips |-> <<>>, ret |-> <<>>]
        ELSE IF r.outcome # "ok"
        THEN [files |-> files, status |-> "insert_failed", tips |-> combined.tips,
              ret |-> <<>>]
        ELSE [files |-> r.store, status |-> "inserted", tips |-> combined.tips,
              ret |-> r.ret]

\* A variant that goes on to phase 2 when update_entities raised.
AfterPhaseOneDeletesAnyway(status) ==
    IF status \in {"inserted", "insert_failed"} THEN "phase2" ELSE "continue"

\* A variant without the except clause: the exception leaves consolidate_tips.
AfterPhaseOneRaises(status) ==
    IF status = "inserted" THEN "phase2"
    ELSE IF status = "no_tips" THEN "continue" ELSE "raise"

\* What follows the try block: `continue` with the next cluster after an
\* exception or on no tips, else the counters and phase 2.
AfterPhaseOne(status) ==
    IF status = "inserted" THEN "phase2" ELSE "continue"

\* A variant that counts the originals as the tips after consolidation.
CountOriginalsTwice(counters, cluster, consolidated_tips) ==
    [clusters_found |-> counters.clusters_found + 1,
     tips_before |-> counters.tips_before + Len(cluster),
     tips_after |-> counters.tips_after + Len(cluster)]

\* clusters_found += 1; tips_before += len(cluster); tips_after += len(consolidated_tips)
Count(counters, cluster, consolidated_tips) ==
    [clusters_found |-> counters.clusters_found + 1,
     tips_before |-> counters.tips_before + Len(cluster),
     tips_after |-> counters.tips_after + Len(consolidated_tips)]

\* A variant of phase 2 that gives up the cluster at the first failed delete.
AfterDeleteStopsOnFailure(outcome, j, cluster) ==
    IF outcome # "ok" \/ j = Len(cluster) THEN "continue" ELSE "phase2"

\* Phase 2, `for entity in cluster`: a failed delete is logged, and the loop
\* goes on; after the last entity comes the next cluster.
AfterDelete(outcome, j, cluster) ==
    IF j = Len(cluster) THEN "continue" ELSE "phase2"

\* The stores consolidation starts from: no namespace, or a namespace that
\* update_entities filled with one batch of guidelines.
TipBatches ==
    { <<Guideline("t1"), Guideline("t1")>>,
      <<Guideline("t1"), Guideline("t2"), Guideline("t1"), Guideline("t2")>>,
      <<Guideline("t1"), Guideline(""), Guideline("t2")>>,
      <<Guideline("t1"), Guideline("t1"), Guideline("t2")>> }

\* an entity of another type that carries a task description
DescribedNote == Entity(CAb, Dict({ <<"task_description", "t1">> }), "note")

\* a namespace that holds a note and then guidelines: two of one description,
\* one without a description, one of a description of its own
MixedStore ==
    UpdateEntities(
        UpdateEntities([n \in NsIds |-> NewNamespace(n, 0)], "ns", <<DescribedNote>>,
                       FALSE, NoScript, 0).store,
        "ns", <<Guideline("t1"), Guideline(""), Guideline("t2"), Guideline("t1")>>,
        FALSE, NoScript, 0).store

TipStores ==
    { [n \in NsIds |-> NoFile], MixedStore } \cup
    { UpdateEntities([n \in NsIds |-> NewNamespace(n, 0)], "ns", batch, FALSE,
                     NoScript, 0).store : batch \in TipBatches }

NoCounters == [clusters_found |-> 0, tips_before |-> 0, tips_after |-> 0]

InitConsolidate ==
    /\ backend = "filesystem"
    /\ fs \in TipStores
    /\ mv = [n \in NsIds |-> NoCollection]
    /\ db = {}
    /\ clock = 0
    /\ resp = Idle
    /\ rc = RcOff
    /\ th = [t \in Threads |-> ThreadIdle]
    /\ lock = [o \in Objects |-> Free]
    /\ gt = GtOff
    /\ gc = GcOff
    /\ se = SeOff
    /\ cl = ClOff
    /\ sy = SyOff
    /\ \E similar \in SUBSET { TaskDescriptions } :
          co = [pc |-> "called", similar |-> similar, clusters |-> <<>>, i |-> 1,
                j |-> 1, counters |-> NoCounters, merged |-> {},
                log |-> <<>>, others |-> {}]

\* clusters = self.cluster_tips(namespace_id, threshold=threshold), outside any try
ConsolidateClusterTips ==
    /\ co.pc = "called"
    /\ LET r == ClusterTips(fs, "ns", co.similar)
       IN  IF r.outcome # "ok"
           THEN co' = [co EXCEPT !.pc = "raised"]
           ELSE co' = [co EXCEPT !.pc = "phase1", !.clusters = r.ret]
    /\ UNCHANGED <<backend, fs, mv, db, clock, resp, rc, th, lock, sy, cl, se, gc, gt>>

\* one pass of `for cluster in clusters` up to phase 2
ConsolidatePhaseOne ==
    /\ co.pc = "phase1"
    /\ co.i <= Len(co.clusters)
    /\ \E answers \in CombineScripts :
        LET cluster == co.clusters[co.i]
            r == PhaseOne(fs, "ns", cluster, answers, clock)
            then == AfterPhaseOne(r.status)
            counters == IF then = "phase2" THEN Count(co.counters, cluster, r.tips)
                        ELSE co.counters
            entry == [op |-> "phase1", cluster |-> co.i, status |-> r.status,
                      ids |-> { r.ret[k].id : k \in 1..Len(r.ret) },
                      tips |-> Len(r.tips), before |-> co.counters,
                      after |-> counters, pre |-> fs, post |-> r.files]
        IN  /\ fs' = r.files
            /\ co' = [co EXCEPT
                        !.pc = IF then = "raise" THEN "raised"
                               ELSE IF then = "phase2" THEN "phase2" ELSE "phase1",
                        !.i = IF then = "continue" THEN @ + 1 ELSE @,
                        !.j = 1,
                        !.counters = counters,
                        !.merged = @ \cup entry.ids,
                        !.log = Append(@, entry)]
    /\ UNCHANGED <<backend, mv, db, clock, resp, rc, th, lock, sy, cl, se, gc, gt>>

\* one pass of `for entity in cluster` in phase 2
ConsolidateDelete ==
    /\ co.pc = "phase2"
    /\ LET cluster == co.clusters[co.i]
           entity == cluster[co.j]
           r == DeleteEntityById(fs, "ns", entity.id)
           then == AfterDelete(r.outcome, co.j, cluster)
           entry == [op |-> "delete", cluster |-> co.i, id |-> entity.id,
                     outcome |-> r.outcome, pre |-> fs, post |-> r.store]
       IN  /\ fs' = r.store
           /\ co' = [co EXCEPT
                        !.pc = IF then = "phase2" THEN "phase2" ELSE "phase1",
                        !.i = IF then = "phase2" THEN @ ELSE @ + 1,
                        !.j = IF then = "phase2" THEN @ + 1 ELSE 1,
                        !.log = Append(@, entry)]
    /\ UNCHANGED <<backend, mv, db, clock, resp, rc, th, lock, sy, cl, se, gc, gt>>

\* return ConsolidationResult(...) after the last cluster
ConsolidateReturn ==
    /\ co.pc = "phase1"
    /\ co.i > Len(co.clusters)
    /\ co' = [co EXCEPT !.pc = "returned"]
    /\ UNCHANGED <<backend, fs, mv, db, clock, resp, rc, th, lock, sy, cl, se, gc, gt>>

\* Between two calls of consolidate_tips to the backend, another client of
\* the store deletes one entity, once in a run.
OtherDeleteEntityById ==
    /\ co.pc \in {"phase1", "phase2"}
    /\ "entity" \notin co.others
    /\ \E k \in 1..Len(EntitiesOf(Store, "ns")) :
          fs' = DeleteEntityById(fs, "ns", EntitiesOf(Store, "ns")[k].id).store
    /\ co' = [co EXCEPT !.others = @ \cup {"entity"}]
    /\ UNCHANGED <<backend, mv, db, clock, resp, rc, th, lock, sy, cl, se, gc, gt>>

\* ... or deletes the namespace, once in a run.
OtherDeleteNamespace ==
    /\ co.pc \in {"phase1", "phase2"}
    /\ "namespace" \notin co.others
    /\ fs["ns"].exists
    /\ fs' = DeleteNamespace(fs, "ns").store
    /\ co' = [co EXCEPT !.others = @ \cup {"namespace"}]
    /\ UNCHANGED <<backend, mv, db, clock, resp, rc, th, lock, sy, cl, se, gc, gt>>

NextConsolidate ==
    \/ ConsolidateClusterTips
    \/ ConsolidatePhaseOne
    \/ ConsolidateDelete
    \/ ConsolidateReturn
    \/ OtherDeleteEntityById
    \/ OtherDeleteNamespace

SpecConsolidate == InitConsolidate /\ [][NextConsolidate]_vars

----------------------------------------------------------------------------
(* What a run of consolidate_tips did, read from its log. *)

\* the k-th entry is phase 1 of a cluster for which the model returned no tips
ZeroTips(k) ==
    /\ co.log[k].op = "phase1"
    /\ co.log[k].status # "combine_failed"
    /\ co.log[k].tips = 0

\* the ids of the entities of the c-th cluster
ClusterIds(c) == { co.clusters[c][m].id : m \in 1..Len(co.clusters[c]) }

\* the k-th entry is a call of delete_entity_by_id for an entity of cluster c
DeleteOf(k, c) == co.log[k].op = "delete" /\ co.log[k].cluster = c

\* C11: in every consolidation run, a cluster for which the model returns zero
\* merged tips has none of its entities deleted by the run (no delete is called
\* for it), nothing is inserted for it (the store is as before), and it is not
\* counted in clusters_found (nor in the other counters).
C11_ZeroTipsSkipsCluster ==
    co.pc # "off" =>
        \A k \in 1..Len(co.log) :
            ZeroTips(k) =>
                /\ co.log[k].post = co.log[k].pre
                /\ co.log[k].ids = {}
                /\ co.log[k].after = co.log[k].before
                /\ \A d \in 1..Len(co.log) : ~DeleteOf(d, co.log[k].cluster)

\* a run has returned that got zero tips for a cluster, whose entities are all
\* still stored
C11_Witness ==
    /\ co.pc = "returned"
    /\ \E k \in 1..Len(co.log) :
          /\ ZeroTips(k)
          /\ ClusterIds(co.log[k].cluster) \subseteq IdsOf(Store, "ns")

\* the k-th entry is phase 1 of cluster c, left with the given status
PhaseOneOf(k, c, status) ==
    /\ co.log[k].op = "phase1"
    /\ co.log[k].cluster = c
    /\ co.log[k].status = status

\* the ids of the entities stored in the files
StoredIds(files) ==
    IF files["ns"].exists
    THEN { files["ns"].entities[m].id : m \in 1..Len(files["ns"].entities) }
    ELSE {}

\* C12: for every cluster that consolidation handles, the insertion of the
\* merged tips is complete (update_entities has returned their ids and they
\* are stored) before the first call that deletes an original of the cluster,
\* and such a call is made only after the insertion for its cluster succeeded.
C12_InsertBeforeDelete ==
    co.pc # "off" =>
        \A d \in 1..Len(co.log) :
            co.log[d].op = "delete" =>
                \E k \in 1..(d - 1) :
                    /\ PhaseOneOf(k, co.log[d].cluster, "inserted")
                    /\ co.log[k].ids # {}
                    /\ co.log[k].ids \subseteq StoredIds(co.log[k].post)

\* an original has been deleted, after the merged tips of its cluster were stored
C12_Witness ==
    /\ co.pc # "off"
    /\ \E d \in 1..Len(co.log) :
          /\ co.log[d].op = "delete"
          /\ co.log[d].outcome = "ok"
          /\ co.log[d].id \notin StoredIds(fs)
          /\ \E k \in 1..(d - 1) :
                /\ PhaseOneOf(k, co.log[d].cluster, "inserted")
                /\ co.log[k].ids \subseteq StoredIds(fs)

\* the k-th entry is a phase 1 that combine_cluster or update_entities failed
FailedPhaseOne(k) ==
    /\ co.log[k].op = "phase1"
    /\ co.log[k].status \in {"combine_failed", "insert_failed"}

\* every cluster up to the c-th has had its phase 1
HandledUpTo(c) ==
    \A b \in 1..c : \E k \in 1..Len(co.log) :
        co.log[k].op = "phase1" /\ co.log[k].cluster = b

\* C13: if merging a cluster or inserting its merged tips fails,
\* consolidate_tips does not raise; it calls no delete for the cluster, leaves
\* the store and its counters as they were, and handles every remaining
\* cluster before it returns.
C13_FailedClusterIsSkipped ==
    co.pc # "off" =>
        /\ \A k \in 1..Len(co.log) :
              FailedPhaseOne(k) =>
                  /\ co.pc # "raised"
                  /\ co.log[k].post = co.log[k].pre
                  /\ co.log[k].after = co.log[k].before
                  /\ \A d \in 1..Len(co.log) : ~DeleteOf(d, co.log[k].cluster)
        /\ co.pc = "returned" => HandledUpTo(Len(co.clusters))
        /\ co.pc = "phase2" => HandledUpTo(co.i)
        /\ co.pc = "phase1" => HandledUpTo(co.i - 1)

\* a run has returned in which the merge of one cluster failed, the insert of
\* a later cluster failed too, and neither was counted
C13_Witness ==
    /\ co.pc = "returned"
    /\ \E k, l \in 1..Len(co.log) :
          /\ k < l
          /\ co.log[k].op = "phase1" /\ co.log[k].status = "combine_failed"
          /\ co.log[l].op = "phase1" /\ co.log[l].status = "insert_failed"
    /\ co.counters = NoCounters

\* the k-th entry is a delete of phase 2 that raised
FailedDelete(k) == co.log[k].op = "delete" /\ co.log[k].outcome # "ok"

\* phase 2 of cluster c is over
PhaseTwoOver(c) == co.pc = "returned" \/ (co.pc \in {"phase1", "phase2"} /\ co.i > c)

\* C14: if deleting one original fails in phase 2 of a cluster, the failed call
\* changes nothing, no delete of the run ever names a merged tip (so the merged
\* tips stay stored), a delete is still called for each remaining original of
\* the cluster, and the run goes on to the next cluster without raising.
C14_FailedDeleteIsSkipped ==
    co.pc # "off" =>
        \A k \in 1..Len(co.log) :
            FailedDelete(k) =>
                /\ co.pc # "raised"
                /\ co.log[k].post = co.log[k].pre
                /\ \A d \in 1..Len(co.log) :
                      co.log[d].op = "delete" => co.log[d].id \notin co.merged
                /\ PhaseTwoOver(co.log[k].cluster) =>
                      \A id \in ClusterIds(co.log[k].cluster) :
                          \E d \in 1..Len(co.log) :
                              DeleteOf(d, co.log[k].cluster) /\ co.log[d].id = id
                /\ co.pc = "returned" => HandledUpTo(Len(co.clusters))

\* a run has returned in which the delete of one original failed, a later
\* original of the same cluster was deleted, a later cluster was handled, and
\* the merged tips of the cluster are stored
C14_Witness ==
    /\ co.pc = "returned"
    /\ \E k, d, l \in 1..Len(co.log) :
          /\ k < d /\ d < l
          /\ FailedDelete(k)
          /\ DeleteOf(d, co.log[k].cluster) /\ co.log[d].outcome = "ok"
          /\ co.log[l].op = "phase1" /\ co.log[l].cluster > co.log[k].cluster
          /\ \E i \in 1..(k - 1) :
                /\ PhaseOneOf(i, co.log[k].cluster, "inserted")
                /\ co.log[i].ids \subseteq StoredIds(fs)

\* the clusters whose merged tips were inserted, as their phase-1 entries
Inserted == { k \in 1..Len(co.log) : co.log[k].op = "phase1" /\ co.log[k].status = "inserted" }

\* the sum of f over a finite set
RECURSIVE Sum(_, _)
Sum(f, S) ==
    IF S = {} THEN 0
    ELSE LET x == CHOOSE y \in S : TRUE IN f[x] + Sum(f, S \ {x})

\* C15: consolidate_tips returns clusters_found equal to the number of clusters
\* whose merged tips were inserted, tips_before equal to the number of original
\* entities in exactly those clusters, and tips_after equal to the number of
\* merged tips inserted for them.
C15_CountsInsertedClusters ==
    co.pc = "returned" =>
        /\ co.counters.clusters_found = Cardinality(Inserted)
        /\ co.counters.tips_before =
              Sum([k \in Inserted |-> Len(co.clusters[co.log[k].cluster])], Inserted)
        /\ co.counters.tips_after =
              Sum([k \in Inserted |-> Cardinality(co.log[k].ids)], Inserted)

\* a run has returned that inserted for one cluster and not for another, with
\* a number of merged tips other than the number of originals
C15_Witness ==
    /\ co.pc = "returned"
    /\ Inserted # {}
    /\ \E k \in 1..Len(co.log) : co.log[k].op = "phase1" /\ k \notin Inserted
    /\ co.counters.tips_after # co.counters.tips_before

\* the guidelines stored in the files
CountGuidelines(files) ==
    IF files["ns"].exists
    THEN Cardinality({ m \in 1..Len(files["ns"].entities) :
                          files["ns"].entities[m].type = "guideline" })
    ELSE 0

\* C16: consolidation merges each cluster into fewer tips: for every
\* consolidated cluster fewer merged tips are inserted than it has originals,
\* tips_after is at most tips_before, and phase 1 and phase 2 of a cluster
\* together never leave more guidelines stored than there were.
C16_FewerTipsAfter ==
    co.pc = "returned" =>
        /\ \A k \in Inserted :
              Cardinality(co.log[k].ids) < Len(co.clusters[co.log[k].cluster])
        /\ co.counters.tips_after <= co.counters.tips_before
        /\ co.others = {} =>
              \A k \in Inserted : CountGuidelines(fs) <= CountGuidelines(co.log[k].pre)

----------------------------------------------------------------------------
(* Phoenix sync: PhoenixSync.sync of kaizen/sync/phoenix_sync.py, on the    *)
(* filesystem backend.                                                       *)

\* longest list of spans one fetch returns
MaxSpans == 2

\* limit of the search in _get_processed_span_ids
ProcessedLimit == 10000

SpanIds == {"s1", "s2"}

\* A span of Phoenix.  prompt tells what its attributes hold under
\* gen_ai.prompt.*: nothing ("none"); role and content of a message ("text");
\* a message that is only a <system-reminder> region ("reminder"); a key
\* gen_ai.prompt.x.role whose index is no number ("bad_index").
Span(name, status_code, span_id, prompt) ==
    [name |-> name, status_code |-> status_code,
     context |-> [trace_id |-> "tr", span_id |-> span_id], prompt |-> prompt]

Spans ==
    { Span("litellm_request", "OK", "s1", "text"),
      Span("litellm_request", "ERROR", "s2", "text"),
      Span("other", "OK", "s1", "text"),
      Span("litellm_request", "OK", "s1", "none"),
      Span("litellm_request", "OK", "s2", "reminder"),
      Span("litellm_request", "OK", "s2", "bad_index") }

\* what _fetch_spans returns
SpanLists == SeqsUpTo(Spans, MaxSpans)

\* A variant of Entity whose content may be of any type.
EntityAcceptsAny(kind) == TRUE

\* Entity.content: str.  pydantic is a library: a field typed str validates a
\* str, and not a list or a dict.  kind is the Python type of the content
\* given to Entity(...).
EntityValidates(kind) == kind = "str"

\* _ensure_namespace: get_namespace_details, and create_namespace when it
\* raises NamespaceNotFoundException
EnsureNamespace(files, namespace_id, now) ==
    IF files[namespace_id].exists THEN files
    ELSE CreateNamespace(files, namespace_id, now).store

\* _get_processed_span_ids: the span_id of the stored trajectories
GetProcessedSpanIds(files, namespace_id) ==
    LET found == SearchEntities(files, namespace_id, NoQuery,
                                { <<"type", "trajectory">> }, ProcessedLimit)
        ids == { DictGet(found.ret[k].metadata, "span_id") : k \in 1..Len(found.ret) }
    IN  IF found.outcome = "NamespaceNotFoundException" THEN {}
        ELSE ids \ {None, ""}

\* _extract_messages_from_span: int() of the index raises ValueError; a
\* message is taken when it has a role and a content
ExtractMessagesFromSpan(span) ==
    IF span.prompt = "bad_index" THEN [err |-> "ValueError", messages |-> <<>>]
    ELSE IF span.prompt = "text"
    THEN [err |-> "none", messages |-> << [role |-> "user", content |-> "hello"] >>]
    ELSE IF span.prompt = "reminder"
    THEN [err |-> "none",
          messages |-> << [role |-> "user", content |-> "<system-reminder>" ] >>]
    ELSE [err |-> "none", messages |-> <<>>]

\* _extract_trajectory
ExtractTrajectory(span) ==
    LET extracted == ExtractMessagesFromSpan(span)
    IN  [err |-> extracted.err, trace_id |-> span.context.trace_id,
         span_id |-> span.context.span_id, messages |-> extracted.messages]

\* _clean_trajectory: the <system-reminder> regions are cut out, and a message
\* left without content is dropped
CleanTrajectory(trajectory) ==
    LET Stripped(content) == IF content = "<system-reminder>" THEN "" ELSE content
        HasContent(msg) == Stripped(msg.content) # ""
    IN  [trajectory EXCEPT !.messages = SelectSeq(@, HasContent)]

\* the Entity that _process_trajectory makes of a trajectory
TrajectoryEntity(trajectory) ==
    Entity(trajectory.messages,
           Dict({ <<"trace_id", trajectory.trace_id>>,
                  <<"span_id", trajectory.span_id>>,
                  <<"model", "unknown">> }),
           "trajectory")

\* _process_trajectory, called with messages.  Entity(content=messages) is
\* validated first; then update_entities stores the trajectory; then
\* generate_tips either raises or returns a TipGenerationResult, which is true
\* in `if tips:` and raises TypeError in `for tip in tips`.  So every call is
\* left by an exception: err names it, persisted tells whether the trajectory
\* was stored before, and no call returns a number of tips.
ProcessTrajectory(files, namespace_id, trajectory, now) ==
    LET r == UpdateEntities(files, namespace_id, <<TrajectoryEntity(trajectory)>>,
                            FALSE, NoScript, now)
    IN  IF ~EntityValidates("list")
        THEN [files |-> files, err |-> "ValidationError", persisted |-> FALSE,
              tips_count |-> 0]
        ELSE IF r.outcome # "ok"
        THEN [files |-> files, err |-> r.outcome, persisted |-> FALSE, tips_count |-> 0]
        ELSE [files |-> r.store, err |-> "TypeError", persisted |-> TRUE,
              tips_count |-> 0]

\* A variant of the first two filters that keeps spans of any name.
KeepsAnyName(span, include_errors) ==
    include_errors \/ span.status_code # "ERROR"

\* the first two filters of the loop: the name of the span and its status
Keeps(span, include_errors) ==
    /\ span.name = "litellm_request"
    /\ include_errors \/ span.status_code # "ERROR"

\* any(k.startswith("gen_ai.prompt.") for k in attrs)
HasPromptAttribute(span) == span.prompt # "none"

\* A variant without the except clause of the loop: the exception leaves sync.
OnExceptionRaises(acc, span, err) ==
    [acc EXCEPT !.raised = TRUE,
                !.trail = Append(@, [at |-> "raised", persisted |-> FALSE, tips |-> 0])]

\* A variant in which the exception comes after the span was counted.
OnExceptionAfterCount(acc, span, err) ==
    [acc EXCEPT !.errors = Append(@, <<span.context.span_id, err>>),
                !.processed = @ + 1]

\* except Exception as e: errors.append(f"Error processing span {span_id}: {e}")
OnException(acc, span, err) ==
    [acc EXCEPT !.errors = Append(@, <<span.context.span_id, err>>)]

\* One pass of `for span in spans`.  acc holds the files, the counters, the
\* errors, and a trail with one entry per span handled: where the pass left
\* the span, and whether its trajectory was stored.
SyncSpan(acc, span, processed_ids, include_errors, namespace_id, now) ==
    LET Left(a, at, persisted) ==
            [a EXCEPT !.trail = Append(@, [at |-> at, persisted |-> persisted,
                                           tips |-> 0])]
        extracted == ExtractTrajectory(span)
        trajectory == CleanTrajectory(extracted)
        r == ProcessTrajectory(acc.files, namespace_id, trajectory, now)
    IN  IF ~Keeps(span, include_errors) THEN Left(acc, "filtered", FALSE)
        ELSE IF span.context.span_id \in processed_ids
        THEN Left([acc EXCEPT !.skipped = @ + 1], "skipped", FALSE)
        ELSE IF ~HasPromptAttribute(span) THEN Left(acc, "filtered", FALSE)
        ELSE IF extracted.err # "none"
        THEN OnException(Left(acc, "extract", FALSE), span, extracted.err)
        ELSE IF Len(trajectory.messages) = 0 THEN Left(acc, "empty", FALSE)
        ELSE IF r.err # "none"
        THEN OnException(Left([acc EXCEPT !.files = r.files], "process", r.persisted),
                         span, r.err)
        ELSE LET done == Left([acc EXCEPT !.files = r.files, !.processed = @ + 1,
                                          !.tips_generated = @ + r.tips_count],
                              "processed", r.persisted)
             IN  [done EXCEPT !.trail[Len(done.trail)].tips = r.tips_count]

RECURSIVE SyncFrom(_, _, _, _, _, _, _)
SyncFrom(acc, spans, i, processed_ids, include_errors, namespace_id, now) ==
    IF i > Len(spans) \/ acc.raised THEN acc
    ELSE SyncFrom(SyncSpan(acc, spans[i], processed_ids, include_errors,
                           namespace_id, now),
                  spans, i + 1, processed_ids, include_errors, namespace_id, now)

\* PhoenixSync.sync once the spans are fetched: _ensure_namespace has run,
\* the processed ids are read once, then the loop, then the SyncResult
Sync(files, namespace_id, spans, include_errors, now) ==
    LET ensured == EnsureNamespace(files, namespace_id, now)
        processed_ids == GetProcessedSpanIds(ensured, namespace_id)
        start == [files |-> ensured, processed |-> 0, skipped |-> 0,
                  tips_generated |-> 0, errors |-> <<>>, trail |-> <<>>,
                  raised |-> FALSE]
    IN  SyncFrom(start, spans, 1, processed_ids, include_errors, namespace_id, now)

\* a trajectory with string content and the span id s1, stored by a client of
\* the store other than this sync
OtherTrajectory ==
    Entity(CA, Dict({ <<"trace_id", "tr">>, <<"span_id", "s1">> }), "trajectory")

\* The stores sync starts from: no namespace, or a namespace in which a
\* client stored that trajectory with update_entities.
SyncStores ==
    { [n \in NsIds |-> NoFile],
      UpdateEntities([n \in NsIds |-> NewNamespace(n, 0)], "ns", <<OtherTrajectory>>,
                     FALSE, NoScript, 0).store }

InitSync ==
    /\ backend = "filesystem"
    /\ fs \in SyncStores
    /\ mv = [n \in NsIds |-> NoCollection]
    /\ db = {}
    /\ clock = 0
    /\ resp = Idle
    /\ rc = RcOff
    /\ th = [t \in Threads |-> ThreadIdle]
    /\ lock = [o \in Objects |-> Free]
    /\ gt = GtOff
    /\ gc = GcOff
    /\ se = SeOff
    /\ cl = ClOff
    /\ co = CoOff
    /\ \E include_errors \in BOOLEAN :
          sy = [pc |-> "first", include_errors |-> include_errors, runs |-> <<>>]

\* sync has returned its SyncResult (or raised): the run is on record
Synced(spans, again, r) ==
    /\ fs' = r.files
    /\ sy' = [sy EXCEPT
                !.pc = IF sy.pc = "first" THEN "second" ELSE "done",
                !.runs = Append(@, [spans |-> spans, again |-> again,
                                    include_errors |-> sy.include_errors,
                                    outcome |-> IF r.raised THEN "raised" ELSE "ok",
                                    processed |-> r.processed, skipped |-> r.skipped,
                                    tips_generated |-> r.tips_generated,
                                    errors |-> r.errors, trail |-> r.trail,
                                    pre |-> fs, post |-> r.files])]
    /\ UNCHANGED <<backend, mv, db, clock, resp, rc, th, lock, co, cl, se, gc, gt>>

\* sync(include_errors=...), with the spans that Phoenix returns
DoSync ==
    /\ sy.pc \in {"first", "second"}
    /\ \E spans \in SpanLists :
          Synced(spans, FALSE, Sync(fs, "ns", spans, sy.include_errors, clock))

\* sync again, when Phoenix returns the spans of the run before
DoSyncAgain ==
    /\ sy.pc = "second"
    /\ LET spans == sy.runs[Len(sy.runs)].spans
       IN  Synced(spans, TRUE, Sync(fs, "ns", spans, sy.include_errors, clock))

\* sync when the fetch fails: _ensure_namespace has run, and _fetch_spans
\* raises out of sync
DoSyncFetchFails ==
    /\ sy.pc \in {"first", "second"}
    /\ fs' = EnsureNamespace(fs, "ns", clock)
    /\ sy' = [sy EXCEPT !.pc = "done"]
    /\ UNCHANGED <<backend, mv, db, clock, resp, rc, th, lock, co, cl, se, gc, gt>>

NextSync ==
    \/ DoSync
    \/ DoSyncAgain
    \/ DoSyncFetchFails

SpecSync == InitSync /\ [][NextSync]_vars

----------------------------------------------------------------------------
(* What the runs of sync did, read from their records. *)

\* the trajectory entities stored in the files
StoredTrajectories(files) ==
    LET IsTrajectory(e) == e.type = "trajectory"
    IN  IF files["ns"].exists THEN SelectSeq(files["ns"].entities, IsTrajectory)
        ELSE <<>>

SpanIdOf(entity) == DictGet(MetaOrEmpty(entity.metadata), "span_id")

\* the span had messages to learn from, and sync was asked to take it
Qualifies(span, include_errors) ==
    /\ span.name = "litellm_request"
    /\ span.status_code = "ERROR" => include_errors
    /\ span.prompt # "none"

\* the i-th span of the run got as far as the extraction of its trajectory
Reached(run, i) == run.trail[i].at \in {"extract", "empty", "process", "processed"}

\* the i-th span of the run failed: an exception left the try block
Failed(run, i) == run.trail[i].at \in {"extract", "process", "raised"}

C18_SecondRunSkipsProcessed ==
    (Len(sy.runs) = 2 /\ sy.runs[2].again) =>
        /\ sy.runs[2].processed = 0
        /\ sy.runs[2].skipped = sy.runs[1].processed
        /\ sy.runs[2].post = sy.runs[2].pre

\* C19: a failure while extracting, persisting or learning from one span is
\* recorded in SyncResult.errors (one error per failed span, with its span
\* id, in the order of the spans) and does not prevent any later span of the
\* run from being handled; sync still returns a SyncResult and does not raise.
C19_SpanFailureIsRecorded ==
    sy.pc # "off" =>
        \A k \in 1..Len(sy.runs) :
            LET run == sy.runs[k]
                IsFailed(i) == Failed(run, i)
                failed == SelectSeq([i \in 1..Len(run.trail) |-> i], IsFailed)
            IN  /\ run.outcome = "ok"
                /\ Len(run.trail) = Len(run.spans)
                /\ Len(run.errors) = Len(failed)
                /\ \A e \in 1..Len(failed) :
                      run.errors[e][1] = run.spans[failed[e]].context.span_id

\* a run has returned whose first span failed in the extraction and whose
\* second span failed when its trajectory was to be stored: two errors
C19_Witness ==
    /\ sy.pc # "off"
    /\ \E k \in 1..Len(sy.runs) :
          /\ Len(sy.runs[k].spans) = 2
          /\ sy.runs[k].trail[1].at = "extract"
          /\ sy.runs[k].trail[2].at = "process"
          /\ sy.runs[k].outcome = "ok"
          /\ Len(sy.runs[k].errors) = 2
          /\ sy.runs[k].errors[1][2] = "ValueError"

\* the spans of the run that qualify
QualifyingSpans(run) ==
    { i \in 1..Len(run.spans) : Qualifies(run.spans[i], run.include_errors) }

\* C20: a sync run persists a trajectory only for spans that are LLM-request
\* spans, are not error-status spans (unless errors are opted in) and have at
\* least one prompt attribute; every other span is neither persisted nor
\* counted as processed: it does not get as far as the extraction of its
\* trajectory, and the run stores and counts no more than the spans that qualify.
C20_OnlyQualifyingSpansPersisted ==
    sy.pc # "off" =>
        \A k \in 1..Len(sy.runs) :
            LET run == sy.runs[k]
            IN  /\ \A i \in 1..Len(run.trail) :
                      (run.trail[i].persisted \/ Reached(run, i))
                          => i \in QualifyingSpans(run)
                /\ run.processed <= Cardinality(QualifyingSpans(run))
                /\ Len(StoredTrajectories(run.post))
                      <= Len(StoredTrajectories(run.pre)) + Cardinality(QualifyingSpans(run))

\* a run with errors opted in has returned that took an error-status span as
\* far as storing its trajectory and dropped a span of another name
C20_Witness ==
    /\ sy.pc # "off"
    /\ \E k \in 1..Len(sy.runs) :
          /\ sy.runs[k].include_errors
          /\ \E i, j \in 1..Len(sy.runs[k].spans) :
                /\ sy.runs[k].spans[i].status_code = "ERROR"
                /\ sy.runs[k].trail[i].at = "process"
                /\ sy.runs[k].spans[j].name = "other"
                /\ sy.runs[k].trail[j].at = "filtered"
----------------------------------------------------------------------------
(* Clustering alone: cluster_entities on the lists a caller can pass it.     *)

\* the longest list of entities given to cluster_entities
MaxClustered == 4

\* the task descriptions of the entities, "" for an entity without one
ClusterDescriptions == {"t1", "t2", "t3"}

\* the i-th RecordedEntity of a list: a guideline with the id str(i)
Recorded(i, td) ==
    StoredEntity(Str(i), "guideline", CA, 0,
                 IF td = "" THEN NoneMeta
                 ELSE Dict({ <<"task_description", td>> }))

ClusterInputs ==
    UNION { { [i \in 1..n |-> Recorded(i, tds[i])] :
                tds \in [1..n -> ClusterDescriptions \cup {""}] } :
            n \in 0..MaxClustered }

\* the pairs of different descriptions whose similarity reaches the threshold
Similarities ==
    SUBSET { p \in { {a, b} : a, b \in ClusterDescriptions } : Cardinality(p) = 2 }

\* The cap is MAX_CLUSTER_ENTITIES of the code, or, since a list of more than
\* 5000 entities cannot be enumerated, one below the longest list of the model:
\* truncation takes the first `cap` entities whatever the cap is.
Caps == { MaxClustered - 1, MAX_CLUSTER_ENTITIES }

InitCluster ==
    /\ backend = "filesystem"
    /\ InitStore
    /\ rc = RcOff
    /\ th = [t \in Threads |-> ThreadIdle]
    /\ lock = [o \in Objects |-> Free]
    /\ gt = GtOff
    /\ gc = GcOff
    /\ se = SeOff
    /\ co = CoOff
    /\ sy = SyOff
    /\ \E entities \in ClusterInputs, similar \in Similarities, cap \in Caps :
          cl = [pc |-> "called", entities |-> entities, similar |-> similar,
                cap |-> cap, clusters |-> <<>>]

\* cluster_entities(entities, threshold)
DoClusterEntities ==
    /\ cl.pc = "called"
    /\ cl' = [cl EXCEPT !.pc = "returned",
                        !.clusters = ClusterEntitiesUpTo(cl.entities, cl.similar,
                                                         cl.cap)]
    /\ UNCHANGED <<backend, fs, mv, db, clock, resp, rc, th, lock, co, sy, se, gc, gt>>

NextCluster == DoClusterEntities

SpecCluster == InitCluster /\ [][NextCluster]_vars

\* the entities of the list that carry a task description, in input order
Described(entities) ==
    LET HasDescription(e) == TaskDescriptionOf(e) # "" IN SelectSeq(entities, HasDescription)

\* a and b are in one of the returned clusters together
InSameCluster(a, b) ==
    \E k \in 1..Len(cl.clusters) : {a, b} \subseteq Range(cl.clusters[k])

\* every two entities of the list `among` that a chain of pairs reaching the
\* threshold joins are in one cluster together
ChainsShareCluster(among) ==
    \A i, j \in 1..Len(among) :
        (i # j /\ j \in Component(among, cl.similar, {i}))
            => InSameCluster(among[i], among[j])

\* C21 as stated: every two entities given to clustering whose task
\* descriptions reach the threshold, directly or through a chain of such
\* pairs, are in one cluster together.
C21_AllGivenEntities ==
    cl.pc = "returned" => ChainsShareCluster(Described(cl.entities))

\* C21, amended: the same holds of the entities clustering keeps, which are
\* the first MAX_CLUSTER_ENTITIES entities of the input that carry a task
\* description, joined by chains among themselves.
C21_KeptEntitiesShareCluster ==
    cl.pc = "returned" => ChainsShareCluster(Take(Described(cl.entities), cl.cap))

\* three entities whose first and last descriptions are joined only through
\* the second have come back as one cluster
C21_Witness ==
    /\ cl.pc = "returned"
    /\ Len(cl.entities) = 3
    /\ cl.similar = { {"t1", "t2"}, {"t2", "t3"} }
    /\ TaskDescriptionOf(cl.entities[1]) = "t1"
    /\ TaskDescriptionOf(cl.entities[2]) = "t3"
    /\ TaskDescriptionOf(cl.entities[3]) = "t2"
    /\ InSameCluster(cl.entities[1], cl.entities[2])

\* the ids of the entities that are in a cluster of the run
ClusteredIds == UNION { ClusterIds(c) : c \in 1..Len(co.clusters) }

\* the entities stored in the files
StoredEntities(files) ==
    IF files["ns"].exists THEN Range(files["ns"].entities) ELSE {}

\* C22: every cluster that clustering returns has at least two entities, and
\* every entity of a cluster has a task description that reaches the threshold
\* with that of another entity of the cluster; so an entity whose description
\* is similar to no other's is in no cluster, and no step of consolidation
\* deletes or rewrites an entity that is in no cluster.
C22_NoSingletonCluster ==
    co.pc # "off" =>
        /\ \A c \in 1..Len(co.clusters) :
              /\ Len(co.clusters[c]) >= 2
              /\ \A m \in 1..Len(co.clusters[c]) :
                    \E o \in 1..Len(co.clusters[c]) :
                        Linked(co.clusters[c], co.similar, m, o)
        /\ \A k \in 1..Len(co.log) :
              \A e \in StoredEntities(co.log[k].pre) :
                  e.id \notin ClusteredIds => e \in StoredEntities(co.log[k].post)

\* a run has returned after deleting the two entities of a cluster, and the
\* guideline whose description no other stored guideline shares is in no
\* cluster and still stored
C22_Witness ==
    /\ co.pc = "returned"
    /\ co.similar = {}
    /\ \E d \in 1..Len(co.log) : co.log[d].op = "delete" /\ co.log[d].outcome = "ok"
    /\ \E e \in StoredEntities(fs) :
          /\ TaskDescriptionOf(e) = "t2"
          /\ e.id \notin ClusteredIds
          /\ \A k \in 1..Len(co.log) : e \in StoredEntities(co.log[k].pre)

----------------------------------------------------------------------------
(* The store's errors on missing and existing targets (sequential caller). *)

\* C23: on the filesystem backend every delete_namespace returns without
\* error and leaves no file for the id; when the id did not exist before the
\* call the store is as before the call, so a second delete_namespace leaves
\* what the first one left.
C23_DeleteNamespaceIdempotent ==
    (backend = "filesystem" /\ resp.op = "delete_namespace") =>
        /\ resp.outcome = "ok"
        /\ ~fs[resp.ns].exists
        /\ ~resp.pre.fs[resp.ns].exists => Store = resp.pre
        /\ DeleteNamespace(fs, resp.ns).store = fs

\* delete_namespace has returned for an id that had no file
C23_Witness ==
    /\ backend = "filesystem"
    /\ resp.op = "delete_namespace"
    /\ ~resp.pre.fs[resp.ns].exists
    /\ resp.outcome = "ok"

\* the entities of the namespace before the call, without those of the id
WithoutId(entity_id) ==
    LET Keep(e) == e.id # entity_id
    IN  SelectSeq(EntitiesOf(resp.pre, resp.ns), Keep)

\* what delete_entity_by_id does when the namespace exists: KaizenException
\* and no change when no entity has the id, else the entity is removed and
\* the others are kept, in their order
DeletesWithinNamespace ==
    IF resp.args \notin IdsOf(resp.pre, resp.ns)
    THEN resp.outcome = "KaizenException" /\ Store = resp.pre
    ELSE /\ resp.outcome = "ok"
         /\ EntitiesOf(Store, resp.ns) = WithoutId(resp.args)
         /\ Len(EntitiesOf(Store, resp.ns)) = Len(EntitiesOf(resp.pre, resp.ns)) - 1

\* C24 as stated: delete_entity raises NamespaceNotFoundException and changes
\* nothing whenever the namespace does not exist; in an existing namespace it
\* raises KaizenException and changes nothing when no entity has the id, and
\* else removes exactly that entity.
C24_MissingNamespaceIsNotFound ==
    resp.op = "delete_entity_by_id" =>
        IF ~NamespaceExists(resp.pre, resp.ns)
        THEN resp.outcome = "NamespaceNotFoundException" /\ Store = resp.pre
        ELSE DeletesWithinNamespace

\* C24, amended: as stated, except that on the vector backend an id that is
\* not an integer raises KaizenException, whether the namespace exists or not.
C24_DeleteEntityTypedErrors ==
    resp.op = "delete_entity_by_id" =>
        IF ~NamespaceExists(resp.pre, resp.ns)
        THEN /\ resp.outcome =
                  IF backend = "milvus" /\ ~IsDecimal(resp.args)
                  THEN "KaizenException" ELSE "NamespaceNotFoundException"
             /\ Store = resp.pre
        ELSE DeletesWithinNamespace

\* delete_entity has removed a stored entity and kept another one
C24_Witness ==
    /\ resp.op = "delete_entity_by_id"
    /\ resp.outcome = "ok"
    /\ resp.args \in IdsOf(resp.pre, resp.ns)
    /\ resp.args \notin IdsOf(Store, resp.ns)
    /\ IdsOf(Store, resp.ns) # {}

----------------------------------------------------------------------------
(* Concurrent calls on a data directory in which the namespace has no file. *)

InitConcCreate ==
    /\ backend = "filesystem"
    /\ InitStore
    /\ rc = RcOff
    /\ th = [t \in Threads |-> ThreadIdle]
    /\ lock = [o \in Objects |-> Free]
    /\ gt = GtOff
    /\ gc = GcOff
    /\ se = SeOff
    /\ cl = ClOff
    /\ co = CoOff
    /\ sy = SyOff

SpecConcCreate == InitConcCreate /\ [][NextConc]_vars

\* every thread has returned from a create_namespace of the same id
AllCreated ==
    \A t \in Threads : th[t].pc = "done" /\ th[t].call.op = "create_namespace"

\* C25: create_namespace fails with NamespaceAlreadyExistsException for an id
\* that exists, so that when several callers create the same namespace id
\* concurrently, exactly one of them succeeds and the others fail with
\* NamespaceAlreadyExistsException.
C25_OneCreateSucceeds ==
    AllCreated =>
        /\ Cardinality({ t \in Threads : th[t].outcome = "ok" }) = 1
        /\ \A t \in Threads :
              th[t].outcome \in {"ok", "NamespaceAlreadyExistsException"}

----------------------------------------------------------------------------
(* Searches: search_entities of both backends after inserts, rewrites and    *)
(* deletes.                                                                  *)

\* the largest `limit` of a search, and the latest time of the model
MaxLimit == 2
MaxClock == 2

\* MilvusEntityBackend.search_entities.  Without a query the rows that match
\* the filter are asked for without a limit; with a query the vector index
\* gives `limit` of them at most, and which ones is the library's ranking:
\* `picked` holds their positions among the matching rows.
SearchEntitiesMilvus(store, namespace_id, query, filters, limit, picked) ==
    LET coll == store.mv[namespace_id]
        ByFilters(row) == \A f \in filters : f[1] = "type" /\ row.type = f[2]
        matching == SelectSeq(coll.rows, ByFilters)
        ranked == Ascending(picked)
        results == IF query = NoQuery THEN matching
                   ELSE [k \in 1..Len(ranked) |-> matching[ranked[k]]]
    IN  IF ~coll.exists
        THEN Outcome(store, "NamespaceNotFoundException", <<>>, 0)
        ELSE Outcome(store, "ok",
                     [k \in 1..Len(results) |-> ParseMilvusEntity(results[k])], 0)

\* the positions the vector index can give for a search with a query
Picks(store, namespace_id, query, filters, limit) ==
    LET coll == store.mv[namespace_id]
        ByFilters(row) == \A f \in filters : f[1] = "type" /\ row.type = f[2]
        n == IF coll.exists THEN Len(SelectSeq(coll.rows, ByFilters)) ELSE 0
    IN  IF backend = "filesystem" \/ query = NoQuery THEN { {} }
        ELSE { S \in SUBSET (1..n) : Cardinality(S) = IF n < limit THEN n ELSE limit }

ClientSearchEntities(n, query, filters, limit, picked) ==
    IF backend = "filesystem"
    THEN LET r == SearchEntities(fs, n, query, filters, limit)
         IN  [r EXCEPT !.store = [Store EXCEPT !.fs = r.store]]
    ELSE SearchEntitiesMilvus(Store, n, query, filters, limit, picked)

\* the queries of a search: none, and the contents in other letter cases
Queries == { NoQuery, <<"a">>, <<"A">>, CAb, <<"a", "b">>, <<"A", "B">>, <<"b">> }
SearchFilters == { {}, { <<"type", "guideline">> }, { <<"type", "note">> } }

\* the batches of the searches' specification, and the answers of the model
\* to a call with conflict resolution: rewrite or delete the entity "1"
SearchBatches ==
    { <<Entity(CA, NoneMeta, "guideline")>>,
      <<Entity(CAb, M1, "guideline")>>,
      <<Entity(CAb, EmptyDict, "note")>>,
      <<Entity(CA, NoneMeta, "guideline"), Entity(CAb, M1, "guideline")>> }
Rewrites ==
    { Always(GoodAnswer(<<EntityUpdate(Str(1), "guideline", CAb, ev, NoneMeta)>>)) :
        ev \in {"UPDATE", "DELETE"} }

NoHistory == [added |-> {}, rewritten |-> {}, deleted |-> {}]

InitSearch ==
    /\ backend \in Backends
    /\ InitStore
    /\ rc = RcOff
    /\ th = [t \in Threads |-> ThreadIdle]
    /\ lock = [o \in Objects |-> Free]
    /\ gt = GtOff
    /\ gc = GcOff
    /\ cl = ClOff
    /\ co = CoOff
    /\ sy = SyOff
    /\ se = NoHistory

\* the ids of the events of one kind that a call returned
EventIds(ret, event) == { ret[k].id : k \in { j \in 1..Len(ret) : ret[j].event = event } }

\* the call returns, and the caller notes what it was told: the ids added
\* with their contents, and the stored ids that were rewritten or deleted
Noted(op, namespace_id, args, r) ==
    /\ fs' = r.store.fs
    /\ mv' = r.store.mv
    /\ db' = r.store.db
    /\ resp' = [op |-> op, ns |-> namespace_id, args |-> args, pre |-> Store,
                outcome |-> r.outcome, ret |-> r.ret, llm_calls |-> r.llm_calls,
                resolved |-> r.resolved]
    /\ se' = IF r.outcome # "ok" THEN se
             ELSE IF op = "delete_entity_by_id"
             THEN [se EXCEPT !.deleted = @ \cup {args}]
             ELSE [added |-> se.added \cup
                        { <<r.ret[k].id, r.ret[k].content>> :
                            k \in { j \in 1..Len(r.ret) : r.ret[j].event = "ADD" } },
                   rewritten |-> se.rewritten \cup
                        (EventIds(r.ret, "UPDATE") \cap IdsOf(Store, namespace_id)),
                   deleted |-> se.deleted \cup
                        (EventIds(r.ret, "DELETE") \cap IdsOf(Store, namespace_id))]
    /\ UNCHANGED <<backend, clock, rc, th, lock, co, sy, cl, gc, gt>>

SearchUpdateEntities ==
    /\ resp = Idle
    /\ \E n \in NsIds, entities \in SearchBatches, resolve \in BOOLEAN :
        \E answers \in (IF resolve THEN Rewrites ELSE {NoScript}) :
            LET r == ClientUpdateEntities(n, entities, resolve, answers)
            IN  /\ WithinIds(r.store)
                /\ Noted("update_entities", n,
                         [entities |-> entities, resolve |-> resolve], r)

SearchDeleteEntityById ==
    /\ resp = Idle
    /\ \E n \in NsIds, entity_id \in DeleteIds :
        Noted("delete_entity_by_id", n, entity_id, ClientDeleteEntityById(n, entity_id))

DoSearchEntities ==
    /\ resp = Idle
    /\ \E n \in NsIds, query \in Queries, filters \in SearchFilters,
          limit \in 0..MaxLimit :
        \E picked \in Picks(Store, n, query, filters, limit) :
            Returns("search_entities", n,
                    [query |-> query, filters |-> filters, limit |-> limit],
                    ClientSearchEntities(n, query, filters, limit, picked))

\* time passes between two calls
Tick ==
    /\ resp = Idle
    /\ clock < MaxClock
    /\ clock' = clock + 1
    /\ UNCHANGED <<backend, fs, mv, db, resp, rc, th, lock, co, sy, cl, se, gc, gt>>

NextSearch ==
    \/ DoCreateNamespace
    \/ SearchUpdateEntities
    \/ SearchDeleteEntityById
    \/ DoSearchEntities
    \/ Return

SpecSearch == InitSearch /\ [][NextSearch]_vars

\* C26: search_entities never returns more than `limit` entities, on either
\* backend, with or without a query; without a query it returns the first
\* `limit` entities that match the filters, in insertion order.
C26_AtMostLimit ==
    (resp.op = "search_entities" /\ resp.outcome = "ok") =>
        /\ Len(resp.ret) <= resp.args.limit
        /\ resp.args.query = NoQuery =>
              LET ByFilters(e) == e.type \in { f[2] : f \in resp.args.filters }
                                  \/ resp.args.filters = {}
                  matching == SelectSeq(EntitiesOf(resp.pre, resp.ns), ByFilters)
              IN  \A k \in 1..Len(resp.ret) : resp.ret[k].id = matching[k].id

\* the search asks for the content c, in some letter case, without filters
\* and with a limit that the namespace does not exceed
AsksFor(c) ==
    /\ Lower(resp.args.query) = Lower(c)
    /\ resp.args.filters = {}
    /\ resp.args.limit >= Len(EntitiesOf(resp.pre, resp.ns))

\* C27: on the filesystem backend, an entity that was added with the string
\* content c and has since been neither deleted nor rewritten is returned by
\* every search whose query is c in any letter case and whose limit is large
\* enough; and no search returns an entity after it was deleted.
C27_FoundUntilDeleted ==
    (backend = "filesystem" /\ resp.op = "search_entities" /\ resp.outcome = "ok") =>
        /\ \A k \in 1..Len(resp.ret) : resp.ret[k].id \notin se.deleted
        /\ \A a \in se.added :
              (a[1] \notin se.deleted \cup se.rewritten /\ AsksFor(a[2]))
                  => \E k \in 1..Len(resp.ret) :
                        resp.ret[k].id = a[1] /\ resp.ret[k].content = a[2]

\* after an entity was deleted, a search for "ab" has returned the entity
\* that was added with the content "Ab"
C27_Witness ==
    /\ backend = "filesystem"
    /\ resp.op = "search_entities"
    /\ resp.args.query = <<"a", "b">>
    /\ se.deleted # {}
    /\ \E a \in se.added :
          /\ a[2] = CAb
          /\ a[1] \notin se.deleted \cup se.rewritten
          /\ AsksFor(a[2])
          /\ \E k \in 1..Len(resp.ret) : resp.ret[k].id = a[1]

----------------------------------------------------------------------------
(* Concurrent calls while the time moves on. *)

SpecConcClock == InitConc /\ [][NextConc \/ Tick]_vars

\* the entities of the file of "ns"
FileEntities(files) == IF files["ns"].exists THEN files["ns"].entities ELSE <<>>

\* C28: the created_at of a stored entity is the time of its most recent
\* mutation, so it never decreases while the entity is stored, in whatever
\* order concurrent update_entities calls take effect.
C28_CreatedAtNeverDecreases ==
    [][\A i \in 1..Len(FileEntities(fs)) : \A j \in 1..Len(FileEntities(fs')) :
          FileEntities(fs)[i].id = FileEntities(fs')[j].id
              => FileEntities(fs')[j].created_at >= FileEntities(fs)[i].created_at]_vars

----------------------------------------------------------------------------
(* mcp_server.get_client: the lazily built client of the server, called by   *)
(* the threads that serve the tools.                                         *)

\* the calls of get_client that one thread makes
MaxCalls == 2

\* _client = None
NoClient == 0

Caller == [pc |-> "idle", got |-> NoClient, calls |-> 0]

InitClient ==
    /\ backend \in Backends
    /\ InitStore
    /\ rc = RcOff
    /\ th = [t \in Threads |-> ThreadIdle]
    /\ lock = [o \in Objects |-> Free]
    /\ gt = GtOff
    /\ cl = ClOff
    /\ co = CoOff
    /\ sy = SyOff
    /\ se = SeOff
    /\ gc = [pc |-> "on", client |-> NoClient, built |-> 0, initialized |-> FALSE,
             lock |-> Free, callers |-> [t \in Threads |-> Caller]]

\* a lock that every thread gets at once
InitLockAlwaysFree(holder) == TRUE

\* _client_init_lock.acquire() goes through when no thread holds the lock
InitLockFree(holder) == holder = Free

\* the with block is left: the lock is released, the call returns or raises
Leaves(t, got) ==
    [gc EXCEPT !.lock = Free, !.callers[t].pc = "idle", !.callers[t].got = got]

UnchangedByClient == UNCHANGED <<backend, clock, resp, rc, th, lock, co, sy, cl, se, gt>>

\* a tool calls get_client()
GetClient(t) ==
    /\ gc.callers[t].pc = "idle"
    /\ gc.callers[t].calls < MaxCalls
    /\ gc' = [gc EXCEPT !.callers[t].pc = "acquire", !.callers[t].calls = @ + 1]
    /\ UNCHANGED <<fs, mv, db>> /\ UnchangedByClient

\* with _client_init_lock:
AcquireInitLock(t) ==
    /\ gc.callers[t].pc = "acquire"
    /\ InitLockFree(gc.lock)
    /\ gc' = [gc EXCEPT !.lock = t, !.callers[t].pc = "check"]
    /\ UNCHANGED <<fs, mv, db>> /\ UnchangedByClient

\* if _client is None:
CheckClient(t) ==
    /\ gc.callers[t].pc = "check"
    /\ gc' = [gc EXCEPT !.callers[t].pc =
                IF gc.client = NoClient THEN "construct" ELSE "check_namespace"]
    /\ UNCHANGED <<fs, mv, db>> /\ UnchangedByClient

\* _client = KaizenClient(): a new instance, or the exception of a backend
\* that cannot be built, which leaves _client as it was
ConstructClient(t) ==
    /\ gc.callers[t].pc = "construct"
    /\ \/ gc' = [gc EXCEPT !.client = gc.built + 1, !.built = @ + 1,
                           !.callers[t].pc = "check_namespace"]
       \/ gc' = Leaves(t, gc.callers[t].got)
    /\ UNCHANGED <<fs, mv, db>> /\ UnchangedByClient

\* if not _namespace_initialized: get_namespace_details, and create_namespace
\* when the namespace is not found; the vector index may fail both calls, and
\* then the exception leaves get_client
EnsureClientNamespace(t) ==
    /\ gc.callers[t].pc = "check_namespace"
    /\ IF gc.initialized
       THEN /\ gc' = [gc EXCEPT !.callers[t].pc = "return"]
            /\ UNCHANGED <<fs, mv, db>>
       ELSE LET r == IF NamespaceExists(Store, "ns") THEN Outcome(Store, "ok", <<>>, 0)
                     ELSE ClientCreateNamespace("ns")
            IN  \/ /\ r.outcome = "ok"
                   /\ fs' = r.store.fs /\ mv' = r.store.mv /\ db' = r.store.db
                   /\ gc' = [gc EXCEPT !.initialized = TRUE,
                                       !.callers[t].pc = "return"]
                \/ /\ backend = "milvus" \/ r.outcome # "ok"
                   /\ gc' = Leaves(t, gc.callers[t].got)
                   /\ UNCHANGED <<fs, mv, db>>
    /\ UnchangedByClient

\* return _client
ReturnClient(t) ==
    /\ gc.callers[t].pc = "return"
    /\ gc' = Leaves(t, gc.client)
    /\ UNCHANGED <<fs, mv, db>> /\ UnchangedByClient

NextClient ==
    \E t \in Threads :
        \/ GetClient(t)
        \/ AcquireInitLock(t)
        \/ CheckClient(t)
        \/ ConstructClient(t)
        \/ EnsureClientNamespace(t)
        \/ ReturnClient(t)

SpecClient == InitClient /\ [][NextClient]_vars

\* C29: under any interleaving of concurrent calls to get_client, at most one
\* KaizenClient is ever constructed, _client is that instance from then on
\* (it is never replaced), and every caller to which get_client has returned
\* holds that same instance.
C29_OneClient ==
    gc.pc # "off" =>
        /\ gc.built <= 1
        /\ gc.client = gc.built
        /\ \A t \in Threads :
              gc.callers[t].got # NoClient => gc.callers[t].got = gc.client

\* each thread has made one call of get_client, and each has been given the
\* one instance
C29_Witness ==
    /\ gc.pc # "off"
    /\ gc.built = 1
    /\ \A t \in Threads : gc.callers[t].got = gc.client /\ gc.callers[t].calls = 1

----------------------------------------------------------------------------
(* Tip generation: generate_tips of kaizen/llm/tips/tips.py on one           *)
(* trajectory and one response of the model.                                 *)

\* the most pieces of text in a response of the model
MaxResponse == 3

DEFAULT_TASK_DESCRIPTION == "Task description unknown"

\* A response is None or a text, given by its pieces: blank space, a code
\* fence with a language tag or without one (which also closes a block), a
\* whole <think>...</think> block,
\* text that is no JSON, JSON that is no TipGenerationResponse, and the JSON
\* of a TipGenerationResponse with one tip.
Pieces == {"space", "fence_json", "fence", "think", "junk", "wrong", "tips"}
\* message.content = NoContent, as a value that is no text of the model
NoContent == <<"<None>">>
Responses == { NoContent } \cup SeqsUpTo(Pieces, MaxResponse)

\* The trajectories: the first user message is a text, there is no user
\* message, or the first user message is not a text.
Trajectories == {"t1", "none", "not_text"}

\* str.strip()
RECURSIVE Strip(_)
Strip(s) ==
    IF s = <<>> THEN s
    ELSE IF Head(s) = "space" THEN Strip(Tail(s))
    ELSE IF s[Len(s)] = "space" THEN Strip(SubSeq(s, 1, Len(s) - 1))
    ELSE s

\* clean_llm_response: content.strip(), the inside of the code fence when the
\* text opens with one and a closing fence follows, the think blocks removed,
\* and strip() again; None has no strip()
CleanLlmResponse(content) ==
    IF content = NoContent THEN [err |-> "AttributeError", text |-> <<>>]
    ELSE LET stripped == Strip(content)
             Fence(p) == p \in {"fence_json", "fence"}
             closes == { k \in 2..Len(stripped) : stripped[k] = "fence" }
             match_res ==
                 IF stripped # <<>> /\ Fence(stripped[1]) /\ closes # {}
                 THEN Strip(SubSeq(stripped, 2,
                                   (CHOOSE k \in closes : \A o \in closes : k <= o) - 1))
                 ELSE stripped
             NoThink(p) == p # "think"
         IN  [err |-> "none", text |-> Strip(SelectSeq(match_res, NoThink))]

\* TipGenerationResponse.model_validate(json.loads(text)).tips: the number of
\* tips, or the exception
ParseTips(text) ==
    LET body == Strip(text)
    IN  IF Len(body) # 1 \/ body[1] \notin {"wrong", "tips"}
        THEN [err |-> "JSONDecodeError", tips |-> 0]
        ELSE IF body[1] = "wrong" THEN [err |-> "ValidationError", tips |-> 0]
        ELSE [err |-> "none", tips |-> 1]

\* parse_openai_agents_trajectory: the task instruction, or the exception
ParseTrajectory(messages) ==
    IF messages = "not_text" THEN [err |-> "KaizenException", task_instruction |-> ""]
    ELSE [err |-> "none",
          task_instruction |-> IF messages = "none" THEN DEFAULT_TASK_DESCRIPTION
                               ELSE messages]

TipGenerationResult(tips, task_description) ==
    [err |-> "none", tips |-> tips, task_description |-> task_description]
Raises(err) == [err |-> err, tips |-> 0, task_description |-> ""]

\* generate_tips(messages), for a model that does or does not support
\* constrained decoding, a completion() that returns or raises, and the
\* content of its first choice
GenerateTips(messages, constrained, completes, content) ==
    LET trajectory_data == ParseTrajectory(messages)
        task_description == trajectory_data.task_instruction
        cleaned == IF constrained THEN [err |-> "none", text |-> content]
                   ELSE CleanLlmResponse(content)
        clean_response == cleaned.text
        parsed == ParseTips(clean_response)
    IN  IF trajectory_data.err # "none" THEN Raises(trajectory_data.err)
        ELSE IF ~completes THEN Raises("APIError")
        ELSE IF cleaned.err # "none" THEN Raises(cleaned.err)
        ELSE IF clean_response = NoContent \/ clean_response = <<>>
        THEN TipGenerationResult(0, task_description)
        ELSE IF parsed.err # "none" THEN TipGenerationResult(0, task_description)
        ELSE TipGenerationResult(parsed.tips, task_description)

InitTips ==
    /\ backend = "filesystem"
    /\ InitStore
    /\ rc = RcOff
    /\ th = [t \in Threads |-> ThreadIdle]
    /\ lock = [o \in Objects |-> Free]
    /\ gc = GcOff
    /\ se = SeOff
    /\ cl = ClOff
    /\ co = CoOff
    /\ sy = SyOff
    /\ \E messages \in Trajectories, constrained \in BOOLEAN, completes \in BOOLEAN,
          content \in Responses :
          gt = [pc |-> "called", messages |-> messages, constrained |-> constrained,
                completes |-> completes, content |-> content,
                result |-> Raises("none")]

DoGenerateTips ==
    /\ gt.pc = "called"
    /\ gt' = [gt EXCEPT !.pc = "returned",
                        !.result = GenerateTips(gt.messages, gt.constrained,
                                                gt.completes, gt.content)]
    /\ UNCHANGED <<backend, fs, mv, db, clock, resp, rc, th, lock, co, sy, cl, se, gc>>

NextTips == DoGenerateTips

SpecTips == InitTips /\ [][NextTips]_vars

\* the model has answered, and its response is empty or malformed: None, or a
\* text without the JSON of a TipGenerationResponse in it
EmptyOrMalformed ==
    /\ ParseTrajectory(gt.messages).err = "none"
    /\ gt.completes
    /\ \/ gt.content = NoContent
       \/ \A k \in 1..Len(gt.content) : gt.content[k] # "tips"

\* C30: generate_tips never raises because of an empty or malformed response
\* of the model: in every such case it returns an empty tip list together with
\* the task description parsed from the trajectory.
C30_NeverRaisesOnBadResponse ==
    (gt.pc = "returned" /\ EmptyOrMalformed) =>
        /\ gt.result.err = "none"
        /\ gt.result.tips = 0
        /\ gt.result.task_description = ParseTrajectory(gt.messages).task_instruction

----------------------------------------------------------------------------
(* The errors that cross the store boundary. *)

\* C31: every failure that a store operation lets escape to its caller is one
\* of the three typed errors NamespaceNotFound, NamespaceAlreadyExists or
\* StoreError (KaizenException); no other kind of error crosses the store
\* boundary.
C31_OnlyTypedErrors ==
    resp # Idle => (resp.outcome = "ok" \/ IsKaizenException(resp.outcome))

----------------------------------------------------------------------------
(* Partial state of a sync run, and the run after it. *)

\* the tips stored in the files that were learned from the span: guidelines
\* whose metadata names it as source_span_id
StoredTipsOf(files, span_id) ==
    LET IsTipOf(e) == /\ e.type = "guideline"
                      /\ DictGet(MetaOrEmpty(e.metadata), "source_span_id") = span_id
    IN  IF files["ns"].exists THEN SelectSeq(files["ns"].entities, IsTipOf)
        ELSE <<>>

\* the partial state of a span: its trajectory is stored, and no tip of it is
PersistedWithoutTips(files, span_id) ==
    /\ \E m \in 1..Len(StoredTrajectories(files)) :
          SpanIdOf(StoredTrajectories(files)[m]) = span_id
    /\ StoredTipsOf(files, span_id) = <<>>

\* C32: when the trajectory of a span is persisted but the tips of that span
\* were not generated and stored, the partial state is reconciled on the next
\* run: a sync run over the same spans generates and stores the tips for that
\* span.
C32_ReconciledOnNextRun ==
    sy.pc # "off" =>
        \A k \in 1..Len(sy.runs) :
            LET run == sy.runs[k]
            IN  \A i \in QualifyingSpans(run) :
                    (/\ run.spans[i].prompt = "text"
                     /\ PersistedWithoutTips(run.pre, run.spans[i].context.span_id))
                        => StoredTipsOf(run.post, run.spans[i].context.span_id) # <<>>

----------------------------------------------------------------------------
(* Two runs of consolidate_tips, each a whole call, on the filesystem        *)
(* backend.  In phase 2 a delete may raise before it has written (the file   *)
(* of the namespace cannot be read or saved): the entity stays stored.       *)

\* the stores the first run starts from: one batch of guidelines
ReconsolidateBatches ==
    { <<Guideline("t1"), Guideline("t1")>>,
      <<Guideline("t1"), Guideline("t2")>>,
      <<Guideline("t1"), Guideline("t2"), Guideline("t3")>>,
      <<Guideline("t2"), Guideline("t1"), Guideline("t3"), Guideline("t3")>> }

ReconsolidateStores ==
    { UpdateEntities([n \in NsIds |-> NewNamespace(n, 0)], "ns", batch, FALSE,
                     NoScript, 0).store : batch \in ReconsolidateBatches }

\* what the model answers to every combine prompt of one run: it fails at
\* each attempt, or gives the same list of tips
RunAnswers ==
    { [k \in 1..CombineAttempts |-> a] : a \in CombineAnswers }

\* phase 2 of one cluster from its j-th entity on; `failing` holds the ids
\* whose delete raises before it has written
RECURSIVE DeleteOriginals(_, _, _, _, _)
DeleteOriginals(files, namespace_id, cluster, j, failing) ==
    IF j > Len(cluster) THEN files
    ELSE LET r == DeleteEntityById(files, namespace_id, cluster[j].id)
             after == IF cluster[j].id \in failing THEN files ELSE r.store
         IN  DeleteOriginals(after, namespace_id, cluster, j + 1, failing)

\* `for cluster in clusters` from the i-th cluster on; acc holds the files,
\* the counters, and for each cluster how phase 1 was left and the ids of the
\* entities it inserted
RECURSIVE ConsolidateFrom(_, _, _, _, _, _, _)
ConsolidateFrom(acc, namespace_id, clusters, i, answers, failing, now) ==
    IF i > Len(clusters) THEN acc
    ELSE LET Body(cluster, r) ==
                 LET entry == [cluster |-> cluster, status |-> r.status,
                               ids |-> { r.ret[k].id : k \in 1..Len(r.ret) }]
                 IN  IF AfterPhaseOne(r.status) = "phase2"
                     THEN [files |-> DeleteOriginals(r.files, namespace_id, cluster, 1,
                                                     failing),
                           counters |-> Count(acc.counters, cluster, r.tips),
                           log |-> Append(acc.log, entry)]
                     ELSE [acc EXCEPT !.files = r.files, !.log = Append(@, entry)]
         IN  ConsolidateFrom(Body(clusters[i],
                                  PhaseOne(acc.files, namespace_id, clusters[i], answers,
                                           now)),
                             namespace_id, clusters, i + 1, answers, failing, now)

\* KaizenClient.consolidate_tips as one call
ConsolidateTips(files, namespace_id, similar, answers, failing, now) ==
    LET start == [files |-> files, counters |-> NoCounters, log |-> <<>>]
        Result(found, done) ==
            [raised |-> FALSE, files |-> done.files, clusters |-> found.ret,
             counters |-> done.counters, log |-> done.log]
        Run(found) ==
            IF found.outcome # "ok"
            THEN [raised |-> TRUE, files |-> files, clusters |-> <<>>,
                  counters |-> NoCounters, log |-> <<>>]
            ELSE Result(found, ConsolidateFrom(start, namespace_id, found.ret, 1, answers,
                                               failing, now))
    IN  Run(ClusterTips(files, namespace_id, similar))

InitReconsolidate ==
    /\ backend = "filesystem"
    /\ fs \in ReconsolidateStores
    /\ mv = [n \in NsIds |-> NoCollection]
    /\ db = {}
    /\ clock = 0
    /\ resp = Idle
    /\ rc = RcOff
    /\ th = [t \in Threads |-> ThreadIdle]
    /\ lock = [o \in Objects |-> Free]
    /\ gt = GtOff
    /\ gc = GcOff
    /\ se = SeOff
    /\ cl = ClOff
    /\ sy = SyOff
    /\ co = [pc |-> "first", runs |-> <<>>]

\* consolidate_tips has returned: the run is on record
Consolidated(similar, failing, r) ==
    /\ fs' = r.files
    /\ co' = [pc |-> IF co.pc = "first" THEN "second" ELSE "done",
              runs |-> Append(co.runs, [similar |-> similar, failing |-> failing,
                                        clusters |-> r.clusters, log |-> r.log,
                                        counters |-> r.counters,
                                        pre |-> fs, post |-> r.files])]
    /\ UNCHANGED <<backend, mv, db, clock, resp, rc, th, lock, sy, cl, se, gc, gt>>

\* consolidate_tips(namespace_id, threshold): the first run, in which any of
\* the deletes may fail
DoConsolidateTips ==
    /\ co.pc = "first"
    /\ \E similar \in Similarities, answers \in RunAnswers,
          failing \in SUBSET IdsOf(Store, "ns") :
          \E r \in { ConsolidateTips(fs, "ns", similar, answers, failing, clock) } :
              Consolidated(similar, failing, r)

\* the next run, with a threshold of its own
DoConsolidateTipsAgain ==
    /\ co.pc = "second"
    /\ \E similar \in Similarities, answers \in RunAnswers :
          \E r \in { ConsolidateTips(fs, "ns", similar, answers, {}, clock) } :
              Consolidated(similar, {}, r)

NextReconsolidate ==
    \/ DoConsolidateTips
    \/ DoConsolidateTipsAgain

SpecReconsolidate == InitReconsolidate /\ [][NextReconsolidate]_vars

\* the ids of the entities of a cluster
IdsIn(cluster) == { cluster[k].id : k \in 1..Len(cluster) }

\* the entity of the c-th cluster handled by the first run is an original that
\* a failed delete of phase 2 left in the store
LeftByFailedDelete(c, e) ==
    LET first == co.runs[1]
    IN  /\ first.log[c].status = "inserted"
        /\ e \in 1..Len(first.log[c].cluster)
        /\ first.log[c].cluster[e].id \in first.failing
        /\ first.log[c].cluster[e].id \in StoredIds(first.post)

\* the next run puts the entity in one cluster with the merged tips that were
\* inserted for its former cluster
ClusteredWithMerged(c, e) ==
    \E g \in 1..Len(co.runs[2].clusters) :
        /\ co.runs[1].log[c].cluster[e].id \in IdsIn(co.runs[2].clusters[g])
        /\ co.runs[1].log[c].ids \subseteq IdsIn(co.runs[2].clusters[g])

\* the task description of the entity is that of the first entity of its
\* former cluster, which the merged tips carry, or is similar to it at the
\* threshold of the next run
SimilarToMerged(c, e) ==
    LET cluster == co.runs[1].log[c].cluster
        own == TaskDescriptionOf(cluster[e])
        merged == TaskDescriptionOf(cluster[1])
    IN  own = merged \/ {own, merged} \in co.runs[2].similar

----------------------------------------------------------------------------
(* The ids a filesystem namespace gives out. *)

\* the ids the call that has just returned reported as added
AddedIds ==
    IF resp' # Idle /\ resp'.op = "update_entities" /\ resp'.outcome = "ok"
    THEN { IntOf(resp'.ret[i].id) :
             i \in { k \in 1..Len(resp'.ret) : resp'.ret[k].event = "ADD" } }
    ELSE {}

\* C35: within the lifetime of a filesystem namespace, ids are never reused:
\* next_id is greater than every stored id and never goes down, and every id a
\* call assigns is at least the next_id from before the call, so an id freed
\* by delete_entity or by a DELETE event is never given to a later entity.
C35_IdsNeverReused ==
    [][\A n \in NsIds :
          (backend = "filesystem" /\ fs[n].exists /\ fs'[n].exists) =>
              /\ fs'[n].next_id >= fs[n].next_id
              /\ \A id \in AddedIds : fs[n].next_id <= id /\ id < fs'[n].next_id
              /\ \A j \in 1..Len(fs'[n].entities) :
                    /\ IsDecimal(fs'[n].entities[j].id)
                    /\ IntOf(fs'[n].entities[j].id) < fs'[n].next_id
                    /\ \/ IntOf(fs'[n].entities[j].id) \in AddedIds
                       \/ \E i \in 1..Len(fs[n].entities) :
                             fs[n].entities[i].id = fs'[n].entities[j].id]_vars

\* the only entity of the namespace, with id 1, was deleted, and the entity
\* added after that has got the id 2
C35_Witness ==
    /\ backend = "filesystem"
    /\ resp # Idle
    /\ resp.op = "update_entities"
    /\ resp.outcome = "ok"
    /\ resp.pre.fs["ns"].exists
    /\ resp.pre.fs["ns"].entities = <<>>
    /\ resp.pre.fs["ns"].next_id = 2
    /\ Len(resp.ret) = 1
    /\ resp.ret[1].event = "ADD"
    /\ resp.ret[1].id = Str(2)
    /\ StoredIds(fs) = { Str(2) }

----------------------------------------------------------------------------
(* The window of conflict resolution under threads. *)

\* C36: on the filesystem backend no other mutation takes effect between the
\* moment update_entities with conflict resolution reads the candidate
\* entities and the moment its events are applied and saved: while a call is
\* in that window the file changes by its own save only, so every UPDATE or
\* DELETE event that names a candidate finds it stored as the model was shown.
C36_NoMutationInWindow ==
    [][\A t \in Threads :
          Resolving(t) => (fs' = fs \/ th'[t].pc = "release")]_vars

----------------------------------------------------------------------------
(* The lock of a filesystem backend object on every path of a call. *)

\* the thread is inside a with block: it holds the lock of its object
InWithBlock(t) == th[t].pc \in {"load", "save", "release"}

\* C37: no filesystem backend operation can deadlock or leave the lock held:
\* a lock is held only by a thread inside the with block of a call on that
\* object, a thread that asks for a lock holds none, a thread whose call has
\* returned or raised (NamespaceNotFound, StoreError, a failure of conflict
\* resolution) holds none, and while a thread waits some thread can step.
C37_LockAlwaysReleased ==
    /\ \A o \in Objects :
          lock[o] # Free =>
              /\ lock[o] \in Threads
              /\ InWithBlock(lock[o])
              /\ th[lock[o]].obj = o
    /\ \A t \in Threads : \A o \in Objects :
          th[t].pc \in {"idle", "acquire", "done"} => lock[o] # t
    /\ (\E t \in Threads : th[t].pc = "acquire") =>
          \E u \in Threads :
              \/ InWithBlock(u)
              \/ th[u].pc = "acquire" /\ CanAcquire(lock, th[u].obj)

\* a call with conflict resolution has raised the error of the model's last
\* answer, and after it another thread has taken the lock of the same object
C37_Witness ==
    \E t \in Threads : \E u \in Threads \ {t} :
        /\ th[t].pc = "done"
        /\ th[t].call.op = "update_entities"
        /\ th[t].call.resolve
        /\ th[t].outcome = "JSONDecodeError"
        /\ th[u].pc = "load"
        /\ th[u].obj = th[t].obj
        /\ lock[th[u].obj] = u

----------------------------------------------------------------------------
(* The counters of a sync run against its spans. *)

\* the spans of the run that the loop left at one of the given places
LeftAt(run, places) == { i \in 1..Len(run.trail) : run.trail[i].at \in places }

\* C38: in every sync run each fetched span contributes to at most one of
\* processed, skipped and errors: the three counts are the numbers of spans
\* the loop left as processed, as skipped and by an exception, so processed +
\* skipped + len(errors) is at most the number of fetched spans; and
\* tips_generated is the sum of the tip counts of the spans counted as
\* processed.
C38_CountersPartitionSpans ==
    sy.pc # "off" =>
        \A k \in 1..Len(sy.runs) :
            LET run == sy.runs[k]
                tips == [i \in 1..Len(run.trail) |-> run.trail[i].tips]
            IN  /\ run.processed = Cardinality(LeftAt(run, {"processed"}))
                /\ run.skipped = Cardinality(LeftAt(run, {"skipped"}))
                /\ Len(run.errors) = Cardinality(LeftAt(run, {"extract", "process"}))
                /\ run.processed + run.skipped + Len(run.errors) <= Len(run.spans)
                /\ run.tips_generated = Sum(tips, LeftAt(run, {"processed"}))

\* a run over two spans has returned that skipped the first and recorded an
\* error for the second
C38_Witness ==
    /\ sy.pc # "off"
    /\ \E k \in 1..Len(sy.runs) :
          /\ Len(sy.runs[k].spans) = 2
          /\ sy.runs[k].trail[1].at = "skipped"
          /\ sy.runs[k].trail[2].at = "process"
          /\ sy.runs[k].skipped = 1
          /\ Len(sy.runs[k].errors) = 1
          /\ sy.runs[k].processed = 0

----------------------------------------------------------------------------
(* What a run of consolidate_tips leaves alone. *)

\* the entities of the file of "ns"
EntitiesIn(files) == IF files["ns"].exists THEN files["ns"].entities ELSE <<>>

\* the entities with another id
Others(entities, id) == LET IsNot(x) == x.id # id IN SelectSeq(entities, IsNot)

\* C39: consolidate_tips deletes only entities that were members of a cluster
\* whose merged tips were successfully inserted in the same run: every delete
\* it calls names such a member, and removes that entity and nothing else.  It
\* never deletes or changes entities of other types, guidelines without a task
\* description, guidelines that ended in no cluster, or tips it has just
\* inserted: what it removes is a described guideline of a cluster of two or
\* more that it did not insert, and its inserts leave what was stored as it was.
C39_DeletesOnlyConsolidated ==
    co.pc # "off" =>
        \A k \in 1..Len(co.log) :
            LET entry == co.log[k]
                before == EntitiesIn(entry.pre)
                after == EntitiesIn(entry.post)
            IN  /\ entry.op = "delete" =>
                      /\ \E p \in 1..(k - 1) : PhaseOneOf(p, entry.cluster, "inserted")
                      /\ entry.id \in ClusterIds(entry.cluster)
                      /\ Len(co.clusters[entry.cluster]) >= 2
                      /\ \A p \in 1..Len(co.log) :
                            co.log[p].op = "phase1" => entry.id \notin co.log[p].ids
                      /\ after = Others(before, entry.id)
                      /\ \A m \in 1..Len(before) :
                            before[m].id = entry.id =>
                                /\ before[m].type = "guideline"
                                /\ TaskDescriptionOf(before[m]) # ""
                /\ entry.op = "phase1" =>
                      /\ Len(after) = Len(before) + Cardinality(entry.ids)
                      /\ SubSeq(after, 1, Len(before)) = before
                      /\ \A m \in (Len(before) + 1)..Len(after) : after[m].id \in entry.ids

\* a run on the mixed store has returned: the cluster of the two guidelines of
\* one description was merged and its originals deleted; the note, the
\* guideline without description, the guideline in no cluster and the merged
\* tips are stored
C39_Witness ==
    /\ co.pc = "returned"
    /\ co.others = {}
    /\ Len(co.log) = 3
    /\ co.log[1].pre = MixedStore
    /\ co.log[1].status = "inserted"
    /\ \A k \in 2..3 : co.log[k].op = "delete" /\ co.log[k].outcome = "ok"
    /\ StoredIds(fs) = { Str(1), Str(3), Str(4) } \cup co.log[1].ids
    /\ SubSeq(EntitiesIn(fs), 1, 3)
          = Others(Others(EntitiesIn(MixedStore), Str(2)), Str(5))

----------------------------------------------------------------------------
(* Events of the model that name an id nobody knows: filesystem backend. *)

\* the ids of a list of stored entities
EntityIds(entities) == { entities[m].id : m \in 1..Len(entities) }

\* the placeholders that resolve_conflicts gives the batch of the call
Placeholders(entities) == { Unprocessed(i - 1) : i \in 1..Len(entities) }

\* the data of the namespace when the first i events of the call are applied
AppliedUpTo(i) ==
    ApplyUpdates(resp.pre.fs[resp.ns], SubSeq(resp.resolved, 1, i), 1,
                 resp.args.entities[1].type, clock).data

\* update_entities with conflict resolution has returned on the filesystem backend
ResolvedOnFilesystem ==
    /\ backend = "filesystem"
    /\ resp # Idle
    /\ resp.op = "update_entities"
    /\ resp.args.resolve
    /\ Len(resp.args.entities) > 0

\* C40 as stated: on the filesystem backend, an UPDATE or DELETE event whose id
\* is neither the id of an entity stored when update_entities was called nor a
\* placeholder of the batch changes nothing, and an ADD event with an unknown
\* placeholder makes the attempt fail, so that no event of its answer is
\* applied and a call whose attempts all fail so stores nothing.
C40_UnknownIdChangesNothing ==
    ResolvedOnFilesystem =>
        /\ \A i \in 1..Len(resp.resolved) :
              LET update == resp.resolved[i]
              IN  /\ (/\ update.event \in {"UPDATE", "DELETE"}
                      /\ update.id \notin EntityIds(resp.pre.fs[resp.ns].entities)
                      /\ update.id \notin Placeholders(resp.args.entities))
                        => AppliedUpTo(i) = AppliedUpTo(i - 1)
                  /\ update.event = "ADD" => update.id \in Placeholders(resp.args.entities)
        /\ resp.outcome = "KeyError" => fs = resp.pre.fs

\* C40, amended: on the filesystem backend, an UPDATE or DELETE event whose id
\* is not the id of an entity of the namespace when the event is applied (the
\* entities stored when update_entities was called, and those that earlier
\* events of the same answer added and did not delete) changes nothing, so
\* that an answer made of such events leaves the stored entities as they
\* were; an ADD event with an unknown placeholder makes the attempt fail, so
\* that no event of its answer is applied and a call whose attempts all fail
\* so stores nothing.
C40_UnknownWhenAppliedChangesNothing ==
    ResolvedOnFilesystem =>
        /\ \A i \in 1..Len(resp.resolved) :
              LET update == resp.resolved[i]
              IN  /\ (/\ update.event \in {"UPDATE", "DELETE"}
                      /\ update.id \notin EntityIds(AppliedUpTo(i - 1).entities))
                        => AppliedUpTo(i) = AppliedUpTo(i - 1)
                  /\ update.event = "ADD" => update.id \in Placeholders(resp.args.entities)
        /\ (/\ resp.outcome = "ok"
            /\ \A i \in 1..Len(resp.resolved) :
                  /\ resp.resolved[i].event \in {"UPDATE", "DELETE"}
                  /\ resp.resolved[i].id \notin EntityIds(resp.pre.fs[resp.ns].entities))
              => fs[resp.ns].entities = resp.pre.fs[resp.ns].entities
        /\ resp.outcome = "KeyError" => fs = resp.pre.fs

\* the answer was an UPDATE or a DELETE of an id that no stored entity has, in
\* a namespace that holds an entity, and the entities are stored as before
C40_Witness ==
    /\ ResolvedOnFilesystem
    /\ resp.outcome = "ok"
    /\ Len(resp.resolved) = 1
    /\ resp.resolved[1].event \in {"UPDATE", "DELETE"}
    /\ Len(resp.pre.fs[resp.ns].entities) = 1
    /\ resp.resolved[1].id \notin EntityIds(resp.pre.fs[resp.ns].entities)
    /\ fs[resp.ns].entities = resp.pre.fs[resp.ns].entities
====
